---------------------------- MODULE Spec2Model ----------------------------
(***************************************************************************)
(* A model of the TDS_Solver repository: the classify-and-dispatch router  *)
(* of intelligent_assignment_router.py (route_question and its handlers)   *)
(* and the upload endpoint of main.py.                                     *)
(*                                                                         *)
(* Text is modelled as TLA+ strings; the Python string operations the code *)
(* uses (strip, upper, lower, the substring test "in", endswith) are       *)
(* computed character by character below.                                  *)
(***************************************************************************)
EXTENDS Integers, Sequences, FiniteSets, TLC

(***************************************************************************)
(* Python string operations                                                *)
(***************************************************************************)

\* The ASCII letters, in the order str.upper / str.lower map them.
LowerLetters == "abcdefghijklmnopqrstuvwxyz"
UpperLetters == "ABCDEFGHIJKLMNOPQRSTUVWXYZ"

\* The characters str.strip() removes from both ends.
PyWhitespace == {" ", "\t", "\n", "\r", "\f"}

CharAt(s, i) == SubSeq(s, i, i)

LetterIndex(letters, c) ==
    IF \E i \in 1..Len(letters) : CharAt(letters, i) = c
    THEN CHOOSE i \in 1..Len(letters) : CharAt(letters, i) = c
    ELSE 0

UpperChar(c) ==
    LET i == LetterIndex(LowerLetters, c)
    IN  IF i = 0 THEN c ELSE CharAt(UpperLetters, i)

LowerChar(c) ==
    LET i == LetterIndex(UpperLetters, c)
    IN  IF i = 0 THEN c ELSE CharAt(LowerLetters, i)

RECURSIVE PyUpper(_)
PyUpper(s) ==
    IF Len(s) = 0 THEN ""
    ELSE UpperChar(CharAt(s, 1)) \o PyUpper(SubSeq(s, 2, Len(s)))

RECURSIVE PyLower(_)
PyLower(s) ==
    IF Len(s) = 0 THEN ""
    ELSE LowerChar(CharAt(s, 1)) \o PyLower(SubSeq(s, 2, Len(s)))

\* s.strip(): the longest slice of s that neither starts nor ends with
\* a whitespace character.
PyStrip(s) ==
    LET keep == {i \in 1..Len(s) : CharAt(s, i) \notin PyWhitespace}
    IN  IF keep = {} THEN ""
        ELSE LET lo == CHOOSE i \in keep : \A j \in keep : i <= j
                 hi == CHOOSE i \in keep : \A j \in keep : j <= i
             IN  SubSeq(s, lo, hi)

\* sub in s
PyIn(sub, s) ==
    \E i \in 1..(Len(s) - Len(sub) + 1) : SubSeq(s, i, i + Len(sub) - 1) = sub

\* s.endswith(suffix)
PyEndsWith(s, suffix) ==
    /\ Len(suffix) <= Len(s)
    /\ SubSeq(s, Len(s) - Len(suffix) + 1, Len(s)) = suffix

(***************************************************************************)
(* Bounds of the model                                                     *)
(***************************************************************************)

\* Most whitespace characters put in front of a lower-case reply.
MaxPad == 1

\* Most days from the first date of a question to the second.
MaxSpan == 40

\* Most rows of an uploaded tickets table.
MaxRows == 2

\* The requests the endpoint is handling at one time.
NumRequests == 2

\* Most records of an array given to sorted(), the built-in array apart.
MaxRecords == 2

\* Most members of an uploaded archive.
MaxMembers == 2

\* Most rows and most columns of a SEQUENCE, the 100 by 100 one apart.
MaxGrid == 3

\* Most entries of the archive extract_files_from_zip is given.
MaxEntries == 2

\* Most blanks between the words of a question about a CLI command.
MaxGap == 2

\* Most cells of the arrays of a SORTBY, the longer examples apart.
MaxCells == 3

\* Most members of the archive _process_unicode_data is given.
MaxFiles == 2

(***************************************************************************)
(* State                                                                   *)
(***************************************************************************)

VARIABLES
    \* route_question (intelligent_assignment_router.py)
    pc,              \* position in route_question
    file,            \* the file behind file_path
    reply,           \* what the classification call produced
    classification,  \* the local variable of that name
    handler,         \* the handler route_question dispatched to ("" = none)
    hpc,             \* position inside that handler
    log,             \* the calls and returns of this route_question call, in order
    result,          \* the envelope route_question returned
    temps,           \* temporary resources that exist / connections that are open
    cmd              \* _process_docker_image_push: index of the command to run next

routerVars == <<pc, file, reply, classification, handler, hpc, log, result, temps, cmd>>

VARIABLES
    \* _process_date_range_calculation
    d_pc,            \* position in the handler
    question,        \* the question text
    start_date,      \* the local variables of those names
    end_date,
    current_date,
    wednesday_count,
    loop_turns,      \* how often the body of the while loop was entered
    d_result         \* the envelope the handler returned

dateVars == <<d_pc, question, start_date, end_date, current_date, wednesday_count, loop_turns,
             d_result>>

VARIABLES
    \* _process_sql_sales_calculation, on the contents of the database
    s_pc,            \* position in the handler
    db,              \* what file_path names: its kind and its tickets table
    tickets,         \* the tickets table of the connection
    row,             \* the row the query is looking at
    total_sales,     \* SUM(units * price) so far
    row_count,       \* COUNT(*) so far
    s_result         \* the envelope the handler returned

sqlVars == <<s_pc, db, tickets, row, total_sales, row_count, s_result>>

VARIABLES
    \* main.py: the requests of the POST endpoint and what they share
    m_pc,            \* where each request is
    form,            \* each request's form fields: question and file
    temp_file_path,  \* process_question's local variable of that name
    buffer,          \* save_upload_file_temporarily: the file a request has open
    tmp,             \* the files of /tmp, by path
    extracted,       \* the directory /tmp/extracted
    model_call,      \* how each request's generate_content call went
    full_prompt,     \* what each request gave generate_content
    raised,          \* the HTTPExceptions raised while handling each request
    response         \* what each request's client received

mainVars == <<m_pc, form, temp_file_path, buffer, tmp, extracted, model_call, full_prompt, raised,
              response>>

VARIABLES
    \* _process_json_sort, on the array it sorts
    j_pc,              \* position in the handler
    json_data,         \* the array the handler sorts
    sort_reply,        \* what the model answers to the sort prompt
    sort_instruction,  \* the local variable of that name
    sorted_json,       \* the local variable of that name
    j_result           \* what the handler returned or raised

jsonVars == <<j_pc, json_data, sort_reply, sort_instruction, sorted_json, j_result>>

VARIABLES
    \* _process_file_replacement_sha256, on the files of the archive
    r_pc,             \* position in the handler
    archive,          \* what file_path names: its path, its kind and the members of the ZIP
    temp_dir,         \* the files under the temporary directory (directory, name, text)
    temp_dir_exists,  \* the temporary directory is there
    walk_order,       \* the directories in the order the second os.walk visits them
    read_order,       \* the files in the order their contents are appended to all_content
    r_result          \* the envelope the handler returned

replVars == <<r_pc, archive, temp_dir, temp_dir_exists, walk_order, read_order, r_result>>

VARIABLES
    \* _process_image_compression, on the sizes of the compressed outputs
    i_pc,                    \* position in the handler
    output_sizes,            \* the sizes of the four compressed outputs
    compression_strategies,  \* the list of that name
    valid_compressions,      \* the list of that name
    i_result                 \* the envelope the handler returned

imgVars == <<i_pc, output_sizes, compression_strategies, valid_compressions, i_result>>

VARIABLES
    \* _process_google_sheets_formula
    g_pc,               \* position in the handler
    g_question,         \* the question text
    sequence_params,    \* the numbers found in the formula
    sequence_array,     \* the local variables of those names
    constrained_array,
    g_result            \* the envelope the handler returned

sheetsVars == <<g_pc, g_question, sequence_params, sequence_array, constrained_array, g_result>>

VARIABLES
    \* _process_excel_formula
    e_pc,          \* position in the handler
    e_question,    \* the question text
    data_array,    \* the local variables of those names
    sort_order,    \* the list of that name
    taken_values,  \* what excel_take returned
    e_result       \* the envelope the handler returned

excelVars == <<e_pc, e_question, data_array, sort_order, taken_values, e_result>>

VARIABLES
    \* extract_files_from_zip
    z_pc,             \* position in extract_files_from_zip
    zip_file,         \* the archive at zip_path
    member_index,     \* how far the loop over namelist() is
    extracted_files,  \* the list of that name
    z_raised          \* the HTTPException raised, if any

zipVars == <<z_pc, zip_file, member_index, extracted_files, z_raised>>

VARIABLES
    \* _process_cli_command_simulation
    c_pc,              \* position in the handler
    c_question,        \* the question text
    command,           \* the local variable of that name
    simulated_output,  \* the dictionary of that name
    c_result           \* the envelope the handler returned

cliVars == <<c_pc, c_question, command, simulated_output, c_result>>

VARIABLES
    \* _process_unicode_data (intelligent_assignment_router.py)
    u_pc,         \* position in _process_unicode_data
    u_file_path,  \* its file_path argument
    zip_ref,      \* the archive behind file_path
    name_index,   \* how many names of namelist() the loop has taken
    total_sum,    \* the local variable of that name
    details,      \* the local variable of that name
    u_result      \* what the handler returned

unicodeVars == <<u_pc, u_file_path, zip_ref, name_index, total_sum, details, u_result>>

\* Everything but the variables of one part.
notRouterVars == <<dateVars, sqlVars, mainVars, jsonVars, replVars, imgVars, sheetsVars, excelVars, zipVars, cliVars, unicodeVars>>
notDateVars == <<routerVars, sqlVars, mainVars, jsonVars, replVars, imgVars, sheetsVars, excelVars, zipVars, cliVars, unicodeVars>>
notSqlVars == <<routerVars, dateVars, mainVars, jsonVars, replVars, imgVars, sheetsVars, excelVars, zipVars, cliVars, unicodeVars>>
notMainVars == <<routerVars, dateVars, sqlVars, jsonVars, replVars, imgVars, sheetsVars, excelVars, zipVars, cliVars, unicodeVars>>
notJsonVars == <<routerVars, dateVars, sqlVars, mainVars, replVars, imgVars, sheetsVars, excelVars, zipVars, cliVars, unicodeVars>>
notReplVars == <<routerVars, dateVars, sqlVars, mainVars, jsonVars, imgVars, sheetsVars, excelVars, zipVars, cliVars, unicodeVars>>
notImgVars == <<routerVars, dateVars, sqlVars, mainVars, jsonVars, replVars, sheetsVars, excelVars, zipVars, cliVars, unicodeVars>>
notSheetsVars == <<routerVars, dateVars, sqlVars, mainVars, jsonVars, replVars, imgVars, excelVars, zipVars, cliVars, unicodeVars>>
notExcelVars == <<routerVars, dateVars, sqlVars, mainVars, jsonVars, replVars, imgVars, sheetsVars, zipVars, cliVars, unicodeVars>>
notZipVars == <<routerVars, dateVars, sqlVars, mainVars, jsonVars, replVars, imgVars, sheetsVars, excelVars, cliVars, unicodeVars>>
notCliVars == <<routerVars, dateVars, sqlVars, mainVars, jsonVars, replVars, imgVars, sheetsVars, excelVars, zipVars, unicodeVars>>
notUnicodeVars == <<routerVars, dateVars, sqlVars, mainVars, jsonVars, replVars, imgVars, sheetsVars, excelVars, zipVars, cliVars>>

vars == <<routerVars, dateVars, sqlVars, mainVars, jsonVars, replVars, imgVars, sheetsVars, excelVars, zipVars, cliVars, unicodeVars>>

\* Python's None, as a file_path.
None == "<None>"

\* not x, for a string or None
Falsy(p) == p = None \/ p = ""

NoResult == [status |-> "<none>"]

(***************************************************************************)
(* The classification labels and the dispatch chain of route_question      *)
(***************************************************************************)

\* The if/elif chain: branch i is taken when one of its labels is a substring
\* of classification and no earlier branch was taken.
DispatchChainSwapped ==
    << [labels |-> {"ZIP_CSV_EXTRACT"},          handler |-> "_process_zip_csv_extract"],
       [labels |-> {"HTTPIE_REQUEST"},           handler |-> "_process_httpie_request"],
       [labels |-> {"NPX_PRETTIER_SHA256"},      handler |-> "_process_npx_prettier_sha256"],
       [labels |-> {"GOOGLE_SHEETS_FORMULA"},    handler |-> "_process_google_sheets_formula"],
       [labels |-> {"JSON_SORT"},                handler |-> "_process_json_sort"],
       [labels |-> {"MULTI_CURSOR_JSON"},        handler |-> "_process_multi_cursor_json"],
       [labels |-> {"UNICODE_DATA_PROCESSING"},  handler |-> "_process_unicode_data"],
       [labels |-> {"FILE_COMPARISON"},          handler |-> "_process_file_comparison"],
       [labels |-> {"EXCEL_FORMULA_PROCESSING"}, handler |-> "_process_excel_formula"],
       [labels |-> {"DATE_RANGE_CALCULATION"},   handler |-> "_process_date_range_calculation"],
       [labels |-> {"GENERAL_PROCESSING", "UNKNOWN"}, handler |-> "_general_processing"],
       [labels |-> {"CLI_COMMAND_SIMULATION"},   handler |-> "_process_cli_command_simulation"],
       [labels |-> {"FILE_REPLACEMENT_SHA256"},  handler |-> "_process_file_replacement_sha256"],
       [labels |-> {"FILE_ATTRIBUTES_LISTING"},  handler |-> "_process_file_attributes_listing"],
       [labels |-> {"SQL_SALES_CALCULATION"},    handler |-> "_process_sql_sales_calculation"],
       [labels |-> {"MARKDOWN_DOCUMENTATION"},   handler |-> "_process_markdown_documentation"],
       [labels |-> {"IMAGE_COMPRESSION"},        handler |-> "_process_image_compression"],
       [labels |-> {"DOCKER_IMAGE_PUSH"},        handler |-> "_process_docker_image_push"] >>

DispatchChain ==
    << [labels |-> {"ZIP_CSV_EXTRACT"},          handler |-> "_process_zip_csv_extract"],
       [labels |-> {"HTTPIE_REQUEST"},           handler |-> "_process_httpie_request"],
       [labels |-> {"NPX_PRETTIER_SHA256"},      handler |-> "_process_npx_prettier_sha256"],
       [labels |-> {"GOOGLE_SHEETS_FORMULA"},    handler |-> "_process_google_sheets_formula"],
       [labels |-> {"JSON_SORT"},                handler |-> "_process_json_sort"],
       [labels |-> {"MULTI_CURSOR_JSON"},        handler |-> "_process_multi_cursor_json"],
       [labels |-> {"UNICODE_DATA_PROCESSING"},  handler |-> "_process_unicode_data"],
       [labels |-> {"FILE_COMPARISON"},          handler |-> "_process_file_comparison"],
       [labels |-> {"EXCEL_FORMULA_PROCESSING"}, handler |-> "_process_excel_formula"],
       [labels |-> {"GENERAL_PROCESSING", "UNKNOWN"}, handler |-> "_general_processing"],
       [labels |-> {"DATE_RANGE_CALCULATION"},   handler |-> "_process_date_range_calculation"],
       [labels |-> {"CLI_COMMAND_SIMULATION"},   handler |-> "_process_cli_command_simulation"],
       [labels |-> {"FILE_REPLACEMENT_SHA256"},  handler |-> "_process_file_replacement_sha256"],
       [labels |-> {"FILE_ATTRIBUTES_LISTING"},  handler |-> "_process_file_attributes_listing"],
       [labels |-> {"SQL_SALES_CALCULATION"},    handler |-> "_process_sql_sales_calculation"],
       [labels |-> {"MARKDOWN_DOCUMENTATION"},   handler |-> "_process_markdown_documentation"],
       [labels |-> {"IMAGE_COMPRESSION"},        handler |-> "_process_image_compression"],
       [labels |-> {"DOCKER_IMAGE_PUSH"},        handler |-> "_process_docker_image_push"] >>

\* The labels the chain tests for.
RecognisedLabels == UNION {DispatchChain[i].labels : i \in 1..Len(DispatchChain)}

\* The branches whose test succeeds on a classification.
MatchingBranches(c) ==
    {i \in 1..Len(DispatchChain) : \E l \in DispatchChain[i].labels : PyIn(l, c)}

\* The branch the chain takes: the first whose test succeeds (0: the else).
BranchTaken(c) ==
    LET m == MatchingBranches(c)
    IN  IF m = {} THEN 0 ELSE CHOOSE i \in m : \A j \in m : i <= j

\* classification_response.text.strip().upper()
NormaliseNoUpper(text) == PyStrip(text)

Normalise(text) == PyUpper(PyStrip(text))

(***************************************************************************)
(* Inputs                                                                  *)
(***************************************************************************)

\* The text of the exceptions the collaborators raise.
ModelError == "503 Service Unavailable"
NotAZip == "File is not a zip file"
NoSuchFile == "[Errno 2] No such file or directory"
DecodeError == "'utf-8' codec can't decode byte 0x89 in position 0"

RECURSIVE Spaces(_)
Spaces(n) == IF n = 0 THEN "" ELSE " " \o Spaces(n - 1)

\* Replies of the model that name no label the chain tests for.
NoLabelReplies ==
    {"", " \n", "dunno", "I cannot classify this question.",
     "FILE_MOVE_RENAME_HASH", "JSON SORT", "Json_Sor"}

\* The lines under "Possible Classifications:" of classification_prompt:
\* the labels, in the order they are listed.
PossibleClassifications ==
    <<"ZIP_CSV_EXTRACT", "JSON_SORT", "MULTI_CURSOR_JSON", "UNICODE_DATA_PROCESSING",
      "FILE_COMPARISON", "EXCEL_FORMULA_PROCESSING", "GENERAL_PROCESSING", "UNKNOWN",
      "DATE_RANGE_CALCULATION", "HTTPIE_REQUEST", "NPX_PRETTIER_SHA256",
      "GOOGLE_SHEETS_FORMULA", "FILE_REPLACEMENT_SHA256", "FILE_ATTRIBUTES_LISTING",
      "SQL_SALES_CALCULATION", "MARKDOWN_DOCUMENTATION", "IMAGE_COMPRESSION",
      "DOCKER_IMAGE_PUSH">>

\* The labels the prompt offers.
PromptLabels == {PossibleClassifications[i] : i \in 1..Len(PossibleClassifications)}

\* The replies the classification call may give: one label (as it is, in
\* lower case, padded, inside a sentence), two labels in either order, and
\* text with no label.
ReplyTexts ==
    {l : l \in RecognisedLabels}
    \cup {PyLower(l) : l \in RecognisedLabels}
    \cup {Spaces(n) \o PyLower(l) \o "\n" : l \in RecognisedLabels, n \in 1..MaxPad}
    \cup {"Classification: " \o l \o "." : l \in RecognisedLabels}
    \cup {p[1] \o " or " \o p[2] :
            p \in {q \in RecognisedLabels \X RecognisedLabels : q[1] # q[2]}}
    \cup NoLabelReplies

\* What file_path may point at.
Uploads ==
    { [path |-> None,               exists |-> FALSE, kind |-> "none",    members |-> << >>],
      [path |-> "/tmp/q.zip",       exists |-> TRUE,  kind |-> "zip",     members |-> <<"data.csv", "notes.txt">>],
      [path |-> "/tmp/Q.ZIP",       exists |-> TRUE,  kind |-> "zip",     members |-> <<"readme.md">>],
      [path |-> "/tmp/broken.zip",  exists |-> TRUE,  kind |-> "garbage", members |-> << >>],
      [path |-> "/tmp/README.md",   exists |-> TRUE,  kind |-> "text",    members |-> << >>],
      [path |-> "/tmp/shape.png",   exists |-> TRUE,  kind |-> "image",   members |-> << >>],
      [path |-> "/tmp/tickets.db",  exists |-> TRUE,  kind |-> "sqlite",  members |-> << >>],
      [path |-> "/tmp/gone.zip",    exists |-> FALSE, kind |-> "none",    members |-> << >>] }

(***************************************************************************)
(* The log of one route_question call                                      *)
(***************************************************************************)

\* A call to a collaborator: the model, an HTTP server, a subprocess.
Call(kind, what, ok, detail) ==
    [ev |-> "call", kind |-> kind, what |-> what, ok |-> ok, detail |-> detail]

\* A handler starts, returns an envelope, or lets an exception escape.
HandlerStart(h) == [ev |-> "handler", kind |-> "start", what |-> h, ok |-> TRUE, detail |-> ""]
HandlerReturn(h) == [ev |-> "handler", kind |-> "return", what |-> h, ok |-> TRUE, detail |-> ""]
HandlerRaise(h, e) == [ev |-> "handler", kind |-> "raise", what |-> h, ok |-> FALSE, detail |-> e]

\* A failure inside a handler that makes it return an error envelope:
\* kind is "validation", "exception", "subprocess" or "http".
Failure(kind, what, e) == [ev |-> "failure", kind |-> kind, what |-> what, ok |-> FALSE, detail |-> e]

\* A temporary resource is created or released.
Resource(kind, what) == [ev |-> "resource", kind |-> kind, what |-> what, ok |-> TRUE, detail |-> ""]

RouteReturn == [ev |-> "route", kind |-> "return", what |-> "route_question", ok |-> TRUE, detail |-> ""]

(***************************************************************************)
(* route_question                                                          *)
(***************************************************************************)

\* The date-range handler, when it is not the one under study.
NoDate == [year |-> 0, month |-> 0, day |-> 0]

DateIdle ==
    /\ d_pc = "off"
    /\ question = ""
    /\ start_date = NoDate
    /\ end_date = NoDate
    /\ current_date = NoDate
    /\ wednesday_count = 0
    /\ loop_turns = 0
    /\ d_result = NoResult

\* SQL's NULL, and a number of hundredths as a REAL.
SqlNull == [type |-> "null"]

SqlReal(hundredths) == [type |-> "real", hundredths |-> hundredths]

NoDb == [kind |-> "none", tickets |-> << >>]

SqlIdle ==
    /\ s_pc = "off"
    /\ db = NoDb
    /\ tickets = << >>
    /\ row = 0
    /\ total_sales = SqlNull
    /\ row_count = 0
    /\ s_result = NoResult

Requests == 1..NumRequests

\* The bytes of a file: whether they are a ZIP archive, whose upload they
\* come from, and how many they are.
NoBytes == [zip |-> FALSE, owner |-> 0, size |-> 0]

NoFile == [exists |-> FALSE, inode |-> 0, bytes |-> NoBytes]

NoDirectory == [exists |-> FALSE, files |-> {}]

NoResponse == [status |-> 0, detail |-> "", context |-> {}]

MainIdle ==
    /\ m_pc = << >>
    /\ form = << >>
    /\ temp_file_path = << >>
    /\ buffer = << >>
    /\ tmp = << >>
    /\ extracted = NoDirectory
    /\ model_call = << >>
    /\ full_prompt = << >>
    /\ raised = << >>
    /\ response = << >>

JsonIdle ==
    /\ j_pc = "off"
    /\ json_data = << >>
    /\ sort_reply = [ok |-> TRUE, text |-> ""]
    /\ sort_instruction = ""
    /\ sorted_json = << >>
    /\ j_result = NoResult

ReplIdle ==
    /\ r_pc = "off"
    /\ archive = [path |-> None, kind |-> "none", members |-> {}]
    /\ temp_dir = {}
    /\ temp_dir_exists = FALSE
    /\ walk_order = << >>
    /\ read_order = << >>
    /\ r_result = NoResult

ImgIdle ==
    /\ i_pc = "off"
    /\ output_sizes = << >>
    /\ compression_strategies = << >>
    /\ valid_compressions = << >>
    /\ i_result = NoResult

SheetsIdle ==
    /\ g_pc = "off"
    /\ g_question = ""
    /\ sequence_params = << >>
    /\ sequence_array = << >>
    /\ constrained_array = << >>
    /\ g_result = NoResult

ExcelIdle ==
    /\ e_pc = "off"
    /\ e_question = ""
    /\ data_array = << >>
    /\ sort_order = << >>
    /\ taken_values = << >>
    /\ e_result = NoResult

NoArchive == [ok |-> FALSE, members |-> << >>]

NoException == [status_code |-> 0, detail |-> ""]

ZipIdle ==
    /\ z_pc = "off"
    /\ zip_file = NoArchive
    /\ member_index = 0
    /\ extracted_files = << >>
    /\ z_raised = NoException

CliIdle ==
    /\ c_pc = "off"
    /\ c_question = ""
    /\ command = ""
    /\ simulated_output = NoResult
    /\ c_result = NoResult

UnicodeIdle ==
    /\ u_pc = "off"
    /\ u_file_path = ""
    /\ zip_ref = [ok |-> FALSE, members |-> << >>]
    /\ name_index = 0
    /\ total_sum = 0
    /\ details = << >>
    /\ u_result = NoResult

RouterIdle ==
    /\ pc = "off"
    /\ file = [path |-> None, exists |-> FALSE, kind |-> "none", members |-> << >>]
    /\ reply = [ok |-> TRUE, text |-> ""]
    /\ classification = ""
    /\ handler = ""
    /\ hpc = ""
    /\ log = << >>
    /\ result = NoResult
    /\ temps = {}
    /\ cmd = 0

RouterInit ==
    /\ pc = "start"
    /\ file \in Uploads
    /\ reply = [ok |-> TRUE, text |-> ""]
    /\ classification = ""
    /\ handler = ""
    /\ hpc = ""
    /\ log = << >>
    /\ result = NoResult
    /\ temps = {}
    /\ cmd = 0

\* except Exception as e, at the end of route_question
route_question_except_generic(e) ==
    [status |-> "error", message |-> "Error processing request"]

route_question_except(e) ==
    [status |-> "error", message |-> e]

\* else: no branch of the chain matched
route_question_else(c) ==
    [status |-> "error", message |-> "Unable to determine processing method",
     classification |-> c]

\* A variant that calls the model a second time when the first call fails.
CallClassifierRetry ==
    /\ pc = "start"
    /\ \/ \E t \in ReplyTexts :
            /\ reply' = [ok |-> TRUE, text |-> t]
            /\ classification' = Normalise(t)
            /\ log' = log \o <<Call("model", "classification", TRUE, "")>>
            /\ pc' = "classified"
            /\ result' = result
       \/ /\ reply' = [ok |-> FALSE, text |-> ModelError]
          /\ classification' = classification
          /\ log' = log \o <<Call("model", "classification", FALSE, ModelError),
                             Call("model", "classification", FALSE, ModelError),
                             RouteReturn>>
          /\ pc' = "done"
          /\ result' = route_question_except(ModelError)
    /\ UNCHANGED <<file, handler, hpc, temps, cmd, notRouterVars>>

\* self.model.generate_content(classification_prompt), .text.strip().upper()
CallClassifier ==
    /\ pc = "start"
    /\ \/ \E t \in ReplyTexts :
            /\ reply' = [ok |-> TRUE, text |-> t]
            /\ classification' = Normalise(t)
            /\ log' = log \o <<Call("model", "classification", TRUE, "")>>
            /\ pc' = "classified"
            /\ result' = result
       \/ /\ reply' = [ok |-> FALSE, text |-> ModelError]
          /\ classification' = classification
          /\ log' = log \o <<Call("model", "classification", FALSE, ModelError),
                             RouteReturn>>
          /\ pc' = "done"
          /\ result' = route_question_except(ModelError)
    /\ UNCHANGED <<file, handler, hpc, temps, cmd, notRouterVars>>

\* The if/elif chain: enter the handler of the branch taken, or return the
\* else envelope.
Dispatch ==
    /\ pc = "classified"
    /\ LET b == BranchTaken(classification)
       IN  \/ /\ b # 0
              /\ handler' = DispatchChain[b].handler
              /\ hpc' = "entry"
              /\ pc' = "handler"
              /\ log' = Append(log, HandlerStart(DispatchChain[b].handler))
              /\ result' = result
           \/ /\ b = 0
              /\ handler' = handler
              /\ hpc' = hpc
              /\ pc' = "done"
              /\ log' = Append(log, RouteReturn)
              /\ result' = route_question_else(classification)
    /\ UNCHANGED <<file, reply, classification, temps, cmd, notRouterVars>>

(***************************************************************************)
(* The handlers                                                            *)
(***************************************************************************)

\* The handler returns envelope env after the events evs: route_question
\* returns it unchanged.
Returns(env, evs) ==
    /\ result' = env
    /\ log' = log \o evs \o <<HandlerReturn(handler), RouteReturn>>
    /\ pc' = "done"
    /\ hpc' = "returned"

\* A route_question without its except clause: the exception of the handler
\* goes on to the caller, and no envelope is returned.
EscapesToCaller(e, evs) ==
    /\ result' = NoResult
    /\ log' = log \o evs \o <<HandlerRaise(handler, e)>>
    /\ pc' = "done"
    /\ hpc' = "raised"

\* An exception escapes the handler after the events evs: route_question's
\* own except clause turns it into an envelope.
Escapes(e, evs) ==
    /\ result' = route_question_except(e)
    /\ log' = log \o evs \o <<HandlerRaise(handler, e), RouteReturn>>
    /\ pc' = "done"
    /\ hpc' = "raised"

InHandler(h) == pc = "handler" /\ handler = h /\ hpc = "entry"

\* A test that only rejects the absent path.
NotAZipPathAbsentOnly(f) == Falsy(f.path)

\* not file_path or not file_path.lower().endswith('.zip')
NotAZipPath(f) == Falsy(f.path) \/ ~PyEndsWith(PyLower(f.path), ".zip")

\* The exception zipfile.ZipFile(file_path) raises ("" when it opens).
ZipOpenError(f) ==
    IF ~f.exists THEN NoSuchFile
    ELSE IF f.kind # "zip" THEN NotAZip
    ELSE ""

\* "debug_info": {"exception": str(e), "traceback": traceback.format_exc()}
ExceptionDebugInfo(e) == [exception |-> e, traceback |-> "<traceback>"]

\* ---- _process_zip_csv_extract ----

\* except Exception as e
zip_csv_extract_except(e) == [status |-> "error", message |-> e]

_process_zip_csv_extract ==
    /\ InHandler("_process_zip_csv_extract")
    /\ \/ /\ NotAZipPath(file)
          /\ Returns([status |-> "error", message |-> "Invalid or missing ZIP file"],
                     <<Failure("validation", "file_path", "")>>)
       \/ /\ ~NotAZipPath(file)
          /\ ZipOpenError(file) # ""
          /\ Returns(zip_csv_extract_except(ZipOpenError(file)),
                     <<Failure("exception", "zipfile.ZipFile", ZipOpenError(file))>>)
       \/ /\ ~NotAZipPath(file)
          /\ ZipOpenError(file) = ""
          /\ ~\E i \in 1..Len(file.members) : PyEndsWith(PyLower(file.members[i]), ".csv")
          /\ Returns([status |-> "error", message |-> "No CSV file found in ZIP"],
                     <<Failure("validation", "csv_filename", "")>>)
       \/ /\ ~NotAZipPath(file)
          /\ ZipOpenError(file) = ""
          /\ \E i \in 1..Len(file.members) : PyEndsWith(PyLower(file.members[i]), ".csv")
          /\ \/ Returns(zip_csv_extract_except("Error tokenizing data"),
                        <<Failure("exception", "pd.read_csv", "Error tokenizing data")>>)
             \/ Returns(zip_csv_extract_except(ModelError),
                        <<Call("model", "extraction", FALSE, ModelError),
                          Failure("exception", "generate_content", ModelError)>>)
             \/ Returns([status |-> "success", answer |-> "<value>",
                         extraction_method |-> "<instruction>"],
                        <<Call("model", "extraction", TRUE, "")>>)
    /\ UNCHANGED <<file, reply, classification, handler, temps, cmd, notRouterVars>>

\* ---- _process_httpie_request ----

httpie_request_except(e) ==
    [status |-> "error", message |-> "Error processing httpie request: " \o e,
     debug_info |-> ExceptionDebugInfo(e)]

_process_httpie_request ==
    /\ InHandler("_process_httpie_request")
    /\ \/ Returns([status |-> "error",
                   message |-> "Unable to extract email or URL from the question"],
                  <<Failure("validation", "question", "")>>)
       \/ Returns([status |-> "error",
                   message |-> "HTTP Request Error: " \o "503 Server Error",
                   debug_info |-> [url |-> "<full_url>", error |-> "503 Server Error"]],
                  <<Call("http", "GET httpbin.org/get", FALSE, "503 Server Error"),
                    Failure("http", "requests.get", "503 Server Error")>>)
       \/ Returns(httpie_request_except("'list' object has no attribute 'get'"),
                  <<Call("http", "GET httpbin.org/get", TRUE, ""),
                    Failure("exception", "response_json.get",
                            "'list' object has no attribute 'get'")>>)
       \/ Returns([status |-> "success", command |-> "<command>", answer |-> "<args>",
                   full_response |-> "<json>"],
                  <<Call("http", "GET httpbin.org/get", TRUE, "")>>)
    /\ UNCHANGED <<file, reply, classification, handler, temps, cmd, notRouterVars>>

\* ---- _process_npx_prettier_sha256 ----

npx_prettier_sha256_except(e) ==
    [status |-> "error", message |-> "Error processing npx prettier command: " \o e,
     debug_info |-> [exception |-> e, traceback |-> "<traceback>",
                     system_platform |-> "<platform>"]]

_process_npx_prettier_sha256 ==
    /\ InHandler("_process_npx_prettier_sha256")
    /\ \/ /\ Falsy(file.path) \/ ~file.exists
          /\ Returns([status |-> "error", message |-> "README.md file not found"],
                     <<Failure("validation", "file_path", "")>>)
       \/ /\ ~(Falsy(file.path) \/ ~file.exists)
          /\ \/ Returns([status |-> "error",
                         message |-> "Command execution error: " \o "exit status 2",
                         stdout |-> "<stdout>", stderr |-> "<stderr>",
                         debug_info |-> [command |-> "<command>", return_code |-> "2"]],
                        <<Call("subprocess", "npx prettier", FALSE, "exit status 2"),
                          Failure("subprocess", "npx prettier", "exit status 2")>>)
             \/ Returns([status |-> "error",
                         message |-> "Executable not found: " \o NoSuchFile,
                         debug_info |-> [error_details |-> NoSuchFile,
                                         system_platform |-> "<platform>",
                                         environment_path |-> "<PATH>"]],
                        <<Call("subprocess", "npx prettier", FALSE, NoSuchFile),
                          Failure("subprocess", "npx prettier", NoSuchFile)>>)
             \/ Returns(npx_prettier_sha256_except(DecodeError),
                        <<Call("subprocess", "npx prettier", FALSE, DecodeError),
                          Failure("exception", "subprocess.run", DecodeError)>>)
             \/ Returns([status |-> "success", answer |-> "<sha256>"],
                        <<Call("subprocess", "npx prettier", TRUE, "")>>)
    /\ UNCHANGED <<file, reply, classification, handler, temps, cmd, notRouterVars>>

\* ---- _process_google_sheets_formula ----

google_sheets_formula_except(e) ==
    [status |-> "error", message |-> "Error processing Google Sheets formula: " \o e,
     debug_info |-> ExceptionDebugInfo(e)]

_process_google_sheets_formula ==
    /\ InHandler("_process_google_sheets_formula")
    /\ \/ Returns([status |-> "error",
                   message |-> "Unable to extract Google Sheets formula"],
                  <<Failure("validation", "question", "")>>)
       \/ Returns([status |-> "error",
                   message |-> "Insufficient parameters for SEQUENCE function",
                   debug_info |-> [extracted_params |-> "<params>"]],
                  <<Failure("validation", "sequence_params", "")>>)
       \/ Returns(google_sheets_formula_except("MemoryError"),
                  <<Failure("exception", "google_sheets_sequence", "MemoryError")>>)
       \/ Returns([status |-> "success", answer |-> "<sum>"], << >>)
    /\ UNCHANGED <<file, reply, classification, handler, temps, cmd, notRouterVars>>

\* ---- _process_json_sort: no try / except around its body ----

_process_json_sort ==
    /\ InHandler("_process_json_sort")
    /\ \/ Escapes(ModelError, <<Call("model", "sort criteria", FALSE, ModelError)>>)
       \/ Returns([status |-> "success", answer |-> "<sorted json>",
                   sort_method |-> "<instruction>"],
                  <<Call("model", "sort criteria", TRUE, "")>>)
    /\ UNCHANGED <<file, reply, classification, handler, temps, cmd, notRouterVars>>

\* ---- _process_multi_cursor_json ----

multi_cursor_json_except(e) == [status |-> "error", message |-> e]

_process_multi_cursor_json ==
    /\ InHandler("_process_multi_cursor_json")
    /\ \/ /\ Falsy(file.path)
          /\ Returns([status |-> "error", message |-> "No file provided"],
                     <<Failure("validation", "file_path", "")>>)
       \/ /\ ~Falsy(file.path)
          /\ ~file.exists
          /\ Returns(multi_cursor_json_except(NoSuchFile),
                     <<Failure("exception", "open", NoSuchFile)>>)
       \/ /\ ~Falsy(file.path)
          /\ file.exists
          /\ file.kind # "text"
          /\ Returns(multi_cursor_json_except(DecodeError),
                     <<Failure("exception", "f.readlines", DecodeError)>>)
       \/ /\ ~Falsy(file.path)
          /\ file.exists
          /\ file.kind = "text"
          /\ Returns([status |-> "success", answer |-> "<json>"], << >>)
    /\ UNCHANGED <<file, reply, classification, handler, temps, cmd, notRouterVars>>

\* ---- _process_unicode_data ----

unicode_data_except_bare(e) == [status |-> "error", message |-> e]

unicode_data_except(e) ==
    [status |-> "error", message |-> e, debug_info |-> ExceptionDebugInfo(e)]

_process_unicode_data ==
    /\ InHandler("_process_unicode_data")
    /\ \/ /\ NotAZipPath(file)
          /\ Returns([status |-> "error", message |-> "Invalid or missing ZIP file"],
                     <<Failure("validation", "file_path", "")>>)
       \/ /\ ~NotAZipPath(file)
          /\ ZipOpenError(file) # ""
          /\ Returns(unicode_data_except(ZipOpenError(file)),
                     <<Failure("exception", "zipfile.ZipFile", ZipOpenError(file))>>)
       \/ /\ ~NotAZipPath(file)
          /\ ZipOpenError(file) = ""
          /\ Returns([status |-> "success", answer |-> "<total_sum>"], << >>)
    /\ UNCHANGED <<file, reply, classification, handler, temps, cmd, notRouterVars>>

\* ---- _process_file_comparison ----

file_comparison_except(e) == [status |-> "error", message |-> e]

\* [f for f in zip_ref.namelist() if f.lower().endswith(('.txt', '.csv'))]
files_to_compare(f) ==
    SelectSeq(f.members, LAMBDA m : \/ PyEndsWith(PyLower(m), ".txt")
                                    \/ PyEndsWith(PyLower(m), ".csv"))

_process_file_comparison ==
    /\ InHandler("_process_file_comparison")
    /\ \/ /\ NotAZipPath(file)
          /\ Returns([status |-> "error", message |-> "Invalid or missing ZIP file"],
                     <<Failure("validation", "file_path", "")>>)
       \/ /\ ~NotAZipPath(file)
          /\ ZipOpenError(file) # ""
          /\ Returns(file_comparison_except(ZipOpenError(file)),
                     <<Failure("exception", "zipfile.ZipFile", ZipOpenError(file))>>)
       \/ /\ ~NotAZipPath(file)
          /\ ZipOpenError(file) = ""
          /\ Len(files_to_compare(file)) < 2
          /\ Returns([status |-> "error", message |-> "Not enough files to compare"],
                     <<Failure("validation", "files_to_compare", "")>>)
       \/ /\ ~NotAZipPath(file)
          /\ ZipOpenError(file) = ""
          /\ Len(files_to_compare(file)) >= 2
          /\ \/ Returns(file_comparison_except(ModelError),
                        <<Call("model", "comparison strategy", FALSE, ModelError),
                          Failure("exception", "generate_content", ModelError)>>)
             \/ Returns([status |-> "success", answer |-> "<different_lines>",
                         comparison_method |-> "<method>",
                         files_compared |-> "<files>"],
                        <<Call("model", "comparison strategy", TRUE, "")>>)
    /\ UNCHANGED <<file, reply, classification, handler, temps, cmd, notRouterVars>>

\* ---- _process_excel_formula ----

excel_formula_except(e) ==
    [status |-> "error", message |-> "Error processing Excel formula: " \o e,
     debug_info |-> ExceptionDebugInfo(e)]

_process_excel_formula ==
    /\ InHandler("_process_excel_formula")
    /\ \/ Returns([status |-> "error",
                   message |-> "No Excel formula found in the question"],
                  <<Failure("validation", "question", "")>>)
       \/ Returns([status |-> "error",
                   message |-> "Unable to extract arrays from the formula",
                   debug_info |-> [full_formula |-> "<formula>",
                                   array_matches |-> "<matches>"]],
                  <<Failure("validation", "array_matches", "")>>)
       \/ Returns(excel_formula_except("invalid literal for int()"),
                  <<Failure("exception", "int", "invalid literal for int()")>>)
       \/ Returns([status |-> "success", result |-> "<sum>"], << >>)
    /\ UNCHANGED <<file, reply, classification, handler, temps, cmd, notRouterVars>>

\* ---- _general_processing ----

general_processing_except(e) ==
    [status |-> "error", message |-> "General processing error: " \o e]

_general_processing ==
    /\ InHandler("_general_processing")
    /\ \/ Returns(general_processing_except(ModelError),
                  <<Call("model", "processing strategy", FALSE, ModelError),
                    Failure("exception", "generate_content", ModelError)>>)
       \/ Returns([status |-> "success", processing_strategy |-> "<text>",
                   file_provided |-> IF Falsy(file.path) THEN "False" ELSE "True"],
                  <<Call("model", "processing strategy", TRUE, "")>>)
    /\ UNCHANGED <<file, reply, classification, handler, temps, cmd, notRouterVars>>

\* ---- _process_date_range_calculation (the counting is in DateSpec) ----

date_range_calculation_except(e) ==
    [status |-> "error", message |-> "Error processing date range calculation: " \o e,
     debug_info |-> ExceptionDebugInfo(e)]

_process_date_range_calculation ==
    /\ InHandler("_process_date_range_calculation")
    /\ \/ Returns([status |-> "error",
                   message |-> "Unable to extract two dates from the question",
                   debug_info |-> [found_dates |-> "<date_matches>"]],
                  <<Failure("validation", "date_matches", "")>>)
       \/ Returns(date_range_calculation_except("day is out of range for month"),
                  <<Failure("exception", "datetime.strptime",
                            "day is out of range for month")>>)
       \/ Returns([status |-> "success", start_date |-> "<start>", end_date |-> "<end>",
                   answer |-> "<wednesday_count>"], << >>)
    /\ UNCHANGED <<file, reply, classification, handler, temps, cmd, notRouterVars>>

\* ---- _process_cli_command_simulation ----

cli_command_simulation_except(e) ==
    [status |-> "error", message |-> "Error processing CLI command simulation: " \o e,
     debug_info |-> ExceptionDebugInfo(e)]

_process_cli_command_simulation ==
    /\ InHandler("_process_cli_command_simulation")
    /\ \/ Returns([status |-> "error",
                   message |-> "Unable to extract CLI command from the question"],
                  <<Failure("validation", "question", "")>>)
       \* a command without 'code -s': simulated_output has no 'output' key
       \/ Returns(cli_command_simulation_except("'output'"),
                  <<Failure("exception", "simulated_output['output']", "'output'")>>)
       \/ Returns([status |-> "success", command |-> "<command>",
                   answer |-> "<settings sync output>"], << >>)
    /\ UNCHANGED <<file, reply, classification, handler, temps, cmd, notRouterVars>>

\* ---- _process_file_replacement_sha256 ----

file_replacement_sha256_except(e) ==
    [status |-> "error", message |-> "Error processing file replacement: " \o e,
     debug_info |-> ExceptionDebugInfo(e)]

_process_file_replacement_sha256 ==
    /\ InHandler("_process_file_replacement_sha256")
    /\ \/ /\ NotAZipPath(file)
          /\ Returns([status |-> "error", message |-> "Invalid or missing ZIP file"],
                     <<Failure("validation", "file_path", "")>>)
       \/ /\ ~NotAZipPath(file)
          /\ ZipOpenError(file) # ""
          /\ Returns(file_replacement_sha256_except(ZipOpenError(file)),
                     <<Resource("create", "tempdir"),
                       Resource("remove", "tempdir"),
                       Failure("exception", "zipfile.ZipFile", ZipOpenError(file))>>)
       \/ /\ ~NotAZipPath(file)
          /\ ZipOpenError(file) = ""
          /\ \/ Returns(file_replacement_sha256_except(DecodeError),
                        <<Resource("create", "tempdir"),
                          Resource("remove", "tempdir"),
                          Failure("exception", "f.read", DecodeError)>>)
             \* the validation call is in a try / except of its own
             \/ \E ok \in BOOLEAN :
                  Returns([status |-> "success", answer |-> "<sha256>"],
                          <<Resource("create", "tempdir"),
                            Call("model", "validation", ok,
                                 IF ok THEN "" ELSE ModelError),
                            Resource("remove", "tempdir")>>)
    /\ temps' = temps \ {"tempdir"}
    /\ UNCHANGED <<file, reply, classification, handler, cmd, notRouterVars>>

\* ---- _process_file_attributes_listing ----

file_attributes_listing_except(e) ==
    [status |-> "error", message |-> "Error processing file attributes: " \o e]

_process_file_attributes_listing ==
    /\ InHandler("_process_file_attributes_listing")
    /\ \/ /\ NotAZipPath(file)
          /\ Returns([status |-> "error", message |-> "Invalid or missing ZIP file"],
                     <<Failure("validation", "file_path", "")>>)
       \/ /\ ~NotAZipPath(file)
          /\ ZipOpenError(file) # ""
          /\ Returns(file_attributes_listing_except(ZipOpenError(file)),
                     <<Resource("create", "tempdir"),
                       Resource("remove", "tempdir"),
                       Failure("exception", "zipfile.ZipFile", ZipOpenError(file))>>)
       \/ /\ ~NotAZipPath(file)
          /\ ZipOpenError(file) = ""
          /\ Returns([status |-> "success", answer |-> "<total_size>",
                      filtered_files |-> "<files>"],
                     <<Resource("create", "tempdir"),
                       Resource("remove", "tempdir")>>)
    /\ temps' = temps \ {"tempdir"}
    /\ UNCHANGED <<file, reply, classification, handler, cmd, notRouterVars>>

\* ---- _process_sql_sales_calculation (the query is in SqlSpec) ----

sql_sales_calculation_except(e) ==
    [status |-> "error", message |-> "Error processing SQL sales calculation: " \o e,
     debug_info |-> ExceptionDebugInfo(e)]

\* What cursor.execute(sql_query) raises on the database behind file_path
\* ("" when the query runs).
SqlQueryError(f) ==
    IF Falsy(f.path) THEN ""
    ELSE IF ~f.exists THEN "no such table: tickets"
    ELSE IF f.kind # "sqlite" THEN "file is not a database"
    ELSE ""

_process_sql_sales_calculation ==
    /\ InHandler("_process_sql_sales_calculation")
    /\ \/ \* the sample database cannot be filled: raised before the inner try
          /\ Falsy(file.path)
          /\ Returns(sql_sales_calculation_except("database or disk is full"),
                     <<Resource("create", "tempdb"), Resource("create", "connection"),
                       Failure("exception", "cursor.executemany",
                               "database or disk is full")>>)
          /\ temps' = temps \cup {"tempdb", "connection"}
       \/ /\ Falsy(file.path)
          /\ Returns([status |-> "success", answer |-> "<total_sales>"],
                     <<Resource("create", "tempdb"), Resource("create", "connection"),
                       Resource("remove", "connection"), Resource("remove", "tempdb")>>)
          /\ temps' = temps
       \/ /\ ~Falsy(file.path)
          /\ SqlQueryError(file) # ""
          /\ Returns(sql_sales_calculation_except(SqlQueryError(file)),
                     <<Resource("create", "connection"),
                       Resource("remove", "connection"),
                       Failure("exception", "cursor.execute", SqlQueryError(file))>>)
          /\ temps' = temps
       \/ /\ ~Falsy(file.path)
          /\ SqlQueryError(file) = ""
          /\ Returns([status |-> "success", answer |-> "<total_sales>"],
                     <<Resource("create", "connection"),
                       Resource("remove", "connection")>>)
          /\ temps' = temps
    /\ UNCHANGED <<file, reply, classification, handler, cmd, notRouterVars>>

\* ---- _process_markdown_documentation ----

markdown_documentation_except(e) ==
    [status |-> "error", message |-> "Error generating Markdown: " \o e,
     debug_info |-> ExceptionDebugInfo(e)]

_process_markdown_documentation ==
    /\ InHandler("_process_markdown_documentation")
    /\ \/ Returns(markdown_documentation_except(ModelError),
                  <<Call("model", "markdown", FALSE, ModelError),
                    Failure("exception", "generate_content", ModelError)>>)
       \/ Returns([status |-> "success", markdown |-> "<markdown>"],
                  <<Call("model", "markdown", TRUE, "")>>)
    /\ UNCHANGED <<file, reply, classification, handler, temps, cmd, notRouterVars>>

\* ---- _process_image_compression (the selection is in a later section) ----

image_compression_except(e) ==
    [status |-> "error", message |-> "Error compressing image: " \o e,
     debug_info |-> ExceptionDebugInfo(e)]

_process_image_compression ==
    /\ InHandler("_process_image_compression")
    /\ \/ /\ Falsy(file.path) \/ ~file.exists
          /\ Returns([status |-> "error", message |-> "Invalid or missing image file"],
                     <<Failure("validation", "file_path", "")>>)
       \/ /\ ~(Falsy(file.path) \/ ~file.exists)
          /\ file.kind # "image"
          /\ Returns(image_compression_except("cannot identify image file"),
                     <<Failure("exception", "PIL.Image.open",
                               "cannot identify image file")>>)
       \/ /\ ~(Falsy(file.path) \/ ~file.exists)
          /\ file.kind = "image"
          /\ Returns([status |-> "success", compressed_size |-> "<size>",
                      compression_method |-> "<method>",
                      compressed_image |-> "<base64>",
                      debug_info |-> [original_size |-> "<size>",
                                      compression_strategies |-> "<strategies>"]],
                     << >>)
    /\ UNCHANGED <<file, reply, classification, handler, temps, cmd, notRouterVars>>

\* ---- _process_docker_image_push ----

\* A list of commands that builds before it logs in.
docker_commands_build_first == <<"docker build", "docker login", "docker push">>

\* commands = [login, build, push]
docker_commands == <<"docker login", "docker build", "docker push">>

docker_image_push_except(e) ==
    [status |-> "error", message |-> "Error processing Docker image push: " \o e,
     debug_info |-> [exception |-> e, traceback |-> "<traceback>",
                     original_question |-> "<question>"]]

\* except subprocess.CalledProcessError as e, inside the loop
docker_command_failed(c) ==
    [status |-> "error", error_output |-> "<stderr>", stdout |-> "<stdout>",
     debug_info |-> [return_code |-> "1", command |-> c]]

\* Up to the for loop: the temporary directory and the Dockerfile.
_process_docker_image_push ==
    /\ InHandler("_process_docker_image_push")
    /\ \/ /\ Returns(docker_image_push_except("No space left on device"),
                     <<Failure("exception", "tempfile.mkdtemp",
                               "No space left on device")>>)
          /\ UNCHANGED <<temps, cmd>>
       \/ /\ hpc' = "loop"
          /\ cmd' = 1
          /\ temps' = temps \cup {"tempdir"}
          /\ log' = Append(log, Resource("create", "tempdir"))
          /\ UNCHANGED <<pc, result>>
    /\ UNCHANGED <<file, reply, classification, handler, notRouterVars>>

\* One turn of: for cmd in commands, and what follows the loop.
docker_commands_loop ==
    /\ pc = "handler"
    /\ handler = "_process_docker_image_push"
    /\ hpc = "loop"
    /\ \/ /\ cmd <= Len(docker_commands)
          /\ \/ /\ log' = Append(log, Call("subprocess", docker_commands[cmd], TRUE, ""))
                /\ cmd' = cmd + 1
                /\ UNCHANGED <<pc, hpc, result, temps>>
             \/ /\ Returns(docker_command_failed(docker_commands[cmd]),
                           <<Call("subprocess", docker_commands[cmd], FALSE, "exit status 1"),
                             Failure("subprocess", docker_commands[cmd], "exit status 1"),
                             Resource("remove", "tempdir")>>)
                /\ temps' = temps \ {"tempdir"}
                /\ cmd' = cmd
       \/ /\ cmd > Len(docker_commands)
          /\ Returns([status |-> "success", docker_hub_url |-> "<url>",
                      repository_name |-> "<repo_name>", image_tag |-> "<student_id>"],
                     <<Resource("remove", "tempdir")>>)
          /\ temps' = temps \ {"tempdir"}
          /\ cmd' = cmd
    /\ UNCHANGED <<file, reply, classification, handler, notRouterVars>>

(***************************************************************************)
(* The specification of one route_question call                            *)
(***************************************************************************)

Next ==
    \/ CallClassifier
    \/ Dispatch
    \/ _process_zip_csv_extract
    \/ _process_httpie_request
    \/ _process_npx_prettier_sha256
    \/ _process_google_sheets_formula
    \/ _process_json_sort
    \/ _process_multi_cursor_json
    \/ _process_unicode_data
    \/ _process_file_comparison
    \/ _process_excel_formula
    \/ _general_processing
    \/ _process_date_range_calculation
    \/ _process_cli_command_simulation
    \/ _process_file_replacement_sha256
    \/ _process_file_attributes_listing
    \/ _process_sql_sales_calculation
    \/ _process_markdown_documentation
    \/ _process_image_compression
    \/ _process_docker_image_push
    \/ docker_commands_loop

Init == RouterInit /\ DateIdle /\ SqlIdle /\ MainIdle /\ JsonIdle /\ ReplIdle /\ ImgIdle /\ SheetsIdle /\ ExcelIdle /\ ZipIdle /\ CliIdle /\ UnicodeIdle

Spec == Init /\ [][Next]_vars

(***************************************************************************)
(* Properties of route_question                                            *)
(***************************************************************************)

\* The handler each label names.
HandlerOfLabel ==
    [l \in {"ZIP_CSV_EXTRACT", "HTTPIE_REQUEST", "NPX_PRETTIER_SHA256",
            "GOOGLE_SHEETS_FORMULA", "JSON_SORT", "MULTI_CURSOR_JSON",
            "UNICODE_DATA_PROCESSING", "FILE_COMPARISON", "EXCEL_FORMULA_PROCESSING",
            "GENERAL_PROCESSING", "UNKNOWN", "DATE_RANGE_CALCULATION",
            "CLI_COMMAND_SIMULATION", "FILE_REPLACEMENT_SHA256",
            "FILE_ATTRIBUTES_LISTING", "SQL_SALES_CALCULATION",
            "MARKDOWN_DOCUMENTATION", "IMAGE_COMPRESSION", "DOCKER_IMAGE_PUSH"} |->
        CASE l = "ZIP_CSV_EXTRACT"          -> "_process_zip_csv_extract"
          [] l = "HTTPIE_REQUEST"           -> "_process_httpie_request"
          [] l = "NPX_PRETTIER_SHA256"      -> "_process_npx_prettier_sha256"
          [] l = "GOOGLE_SHEETS_FORMULA"    -> "_process_google_sheets_formula"
          [] l = "JSON_SORT"                -> "_process_json_sort"
          [] l = "MULTI_CURSOR_JSON"        -> "_process_multi_cursor_json"
          [] l = "UNICODE_DATA_PROCESSING"  -> "_process_unicode_data"
          [] l = "FILE_COMPARISON"          -> "_process_file_comparison"
          [] l = "EXCEL_FORMULA_PROCESSING" -> "_process_excel_formula"
          [] l = "GENERAL_PROCESSING"       -> "_general_processing"
          [] l = "UNKNOWN"                  -> "_general_processing"
          [] l = "DATE_RANGE_CALCULATION"   -> "_process_date_range_calculation"
          [] l = "CLI_COMMAND_SIMULATION"   -> "_process_cli_command_simulation"
          [] l = "FILE_REPLACEMENT_SHA256"  -> "_process_file_replacement_sha256"
          [] l = "FILE_ATTRIBUTES_LISTING"  -> "_process_file_attributes_listing"
          [] l = "SQL_SALES_CALCULATION"    -> "_process_sql_sales_calculation"
          [] l = "MARKDOWN_DOCUMENTATION"   -> "_process_markdown_documentation"
          [] l = "IMAGE_COMPRESSION"        -> "_process_image_compression"
          [] l = "DOCKER_IMAGE_PUSH"        -> "_process_docker_image_push"]

FixedLabels == DOMAIN HandlerOfLabel

\* The handlers started so far, in order.
HandlersStarted ==
    LET starts == SelectSeq(log, LAMBDA e : e.ev = "handler" /\ e.kind = "start")
    IN  [i \in 1..Len(starts) |-> starts[i].what]

\* The calls made so far for which P holds.
CallsOf(kind, what) ==
    {i \in 1..Len(log) : log[i].ev = "call" /\ log[i].kind = kind /\ log[i].what = what}

\* The chain has been walked for a reply the model gave.
Dispatched == pc \in {"handler", "done"} /\ reply.ok

UnableToDetermine(c) ==
    [status |-> "error", message |-> "Unable to determine processing method",
     classification |-> c]

\* C1 as stated: a reply that is one label once trimmed and upper-cased starts
\* exactly that label's handler; a reply in which no label occurs as a
\* substring starts no handler and gets the "unable to determine" envelope
\* with the reply itself in the classification field.
C1_AsStated ==
    Dispatched =>
        /\ \A l \in FixedLabels :
              PyUpper(PyStrip(reply.text)) = l => HandlersStarted = <<HandlerOfLabel[l]>>
        /\ (\A l \in FixedLabels : ~PyIn(l, reply.text)) =>
              /\ HandlersStarted = << >>
              /\ pc = "done" /\ result = UnableToDetermine(reply.text)

\* C1 amended: a reply that is one label once trimmed and upper-cased starts
\* exactly that label's handler; a reply whose trimmed, upper-cased text
\* holds no label as a substring starts no handler and gets the "unable to
\* determine" envelope with the trimmed, upper-cased reply in the
\* classification field.
C1_Routing ==
    Dispatched =>
        /\ \A l \in FixedLabels :
              PyUpper(PyStrip(reply.text)) = l => HandlersStarted = <<HandlerOfLabel[l]>>
        /\ (\A l \in FixedLabels : ~PyIn(l, PyUpper(PyStrip(reply.text)))) =>
              /\ HandlersStarted = << >>
              /\ pc = "done" /\ result = UnableToDetermine(PyUpper(PyStrip(reply.text)))

\* A reply with no label in it whose trimmed, upper-cased text differs from the
\* reply was answered with the else envelope.
C1_Witness ==
    /\ Dispatched /\ pc = "done"
    /\ reply.text = "dunno"
    /\ HandlersStarted = << >>
    /\ result = UnableToDetermine("DUNNO")

\* The order of the branches the claim gives.
ClaimedOrder ==
    <<"ZIP_CSV_EXTRACT", "HTTPIE_REQUEST", "NPX_PRETTIER_SHA256",
      "GOOGLE_SHEETS_FORMULA", "JSON_SORT", "MULTI_CURSOR_JSON",
      "UNICODE_DATA_PROCESSING", "FILE_COMPARISON", "EXCEL_FORMULA_PROCESSING",
      "GENERAL_PROCESSING", "UNKNOWN", "DATE_RANGE_CALCULATION",
      "CLI_COMMAND_SIMULATION", "FILE_REPLACEMENT_SHA256", "FILE_ATTRIBUTES_LISTING",
      "SQL_SALES_CALCULATION", "MARKDOWN_DOCUMENTATION", "IMAGE_COMPRESSION",
      "DOCKER_IMAGE_PUSH">>

LabelsIn(text) == {i \in 1..Len(ClaimedOrder) : PyIn(ClaimedOrder[i], text)}

\* C2: a reply that contains two or more labels starts exactly one handler,
\* that of the label which comes first in the order of the chain, wherever the
\* labels stand in the reply.
C2_FirstBranchWins ==
    (Dispatched /\ Cardinality(LabelsIn(reply.text)) >= 2) =>
        LET first == CHOOSE i \in LabelsIn(reply.text) :
                         \A j \in LabelsIn(reply.text) : i <= j
        IN  HandlersStarted = <<HandlerOfLabel[ClaimedOrder[first]]>>

\* The reply names the last branch before the first one; the first one ran.
C2_Witness ==
    /\ Dispatched
    /\ reply.text = "DOCKER_IMAGE_PUSH or ZIP_CSV_EXTRACT"
    /\ HandlersStarted = <<"_process_zip_csv_extract">>

\* C3: when the classification call raises, route_question returns status
\* "error" with the exception text as message, starts no handler and does not
\* call the model again.
C3_ClassifierFailure ==
    (pc = "done" /\ ~reply.ok) =>
        /\ result = [status |-> "error", message |-> reply.text]
        /\ HandlersStarted = << >>
        /\ Cardinality(CallsOf("model", "classification")) = 1
        /\ Cardinality({i \in 1..Len(log) : log[i].ev = "call"}) = 1

\* The classification call raised and route_question has returned.
C3_Witness ==
    /\ pc = "done" /\ ~reply.ok
    /\ \E i \in 1..Len(log) :
          log[i] = Call("model", "classification", FALSE, ModelError)
    /\ result.status = "error"

\* C4 as stated: no exception raised inside a handler leaves the handler.
C4_HandlersCatchEverything ==
    \A i \in 1..Len(log) : ~(log[i].ev = "handler" /\ log[i].kind = "raise")

\* The failure that made the handler return (the last one logged).
FailuresLogged == {i \in 1..Len(log) : log[i].ev = "failure"}
LastFailure == log[CHOOSE i \in FailuresLogged : \A j \in FailuresLogged : j <= i]

\* A handler returned an envelope because a failure occurred.
HandlerFailed ==
    /\ pc = "done"
    /\ hpc = "returned"
    /\ FailuresLogged # {}

HasExceptionAndTraceback(env) ==
    /\ "debug_info" \in DOMAIN env
    /\ {"exception", "traceback"} \subseteq DOMAIN env.debug_info

TracebackHandlers ==
    {"_process_httpie_request", "_process_npx_prettier_sha256",
     "_process_google_sheets_formula", "_process_cli_command_simulation",
     "_process_date_range_calculation", "_process_excel_formula",
     "_process_unicode_data", "_process_file_replacement_sha256",
     "_process_sql_sales_calculation", "_process_markdown_documentation",
     "_process_image_compression", "_process_docker_image_push"}

C8_OneCycle ==
    /\ pc = "start" => log = << >>
    /\ pc # "start" =>
          /\ Cardinality(CallsOf("model", "classification")) = 1
          /\ log[1].ev = "call" /\ log[1].kind = "model" /\ log[1].what = "classification"
    /\ Len(HandlersStarted) <= 1
    /\ \A i \in 1..Len(log) :
          (log[i].ev = "handler" /\ log[i].kind = "start") =>
              /\ i = 2
              /\ log[1].ok
              /\ \A j \in i + 1..Len(log) : log[j].ev # "call" \/ log[j].what # "classification"
    /\ \A i \in 1..Len(log) : log[i] = RouteReturn => (i = Len(log) /\ pc = "done")
    /\ pc = "done" => log[Len(log)] = RouteReturn
    /\ \A i \in 1..Len(log) : \A j \in i + 1..Len(log) :
          (log[i].ev = "call" /\ ~log[i].ok) =>
              ~(log[j].ev = "call" /\ log[j].kind = log[i].kind /\ log[j].what = log[i].what)

\* docker build failed after docker login ran: the handler returned without
\* running build again or running push.
C8_Witness ==
    /\ pc = "done"
    /\ handler = "_process_docker_image_push"
    /\ \E i \in 1..Len(log) : log[i] = Call("subprocess", "docker build", FALSE, "exit status 1")
    /\ CallsOf("subprocess", "docker login") # {}
    /\ CallsOf("subprocess", "docker push") = {}

(***************************************************************************)
(* _process_date_range_calculation                                         *)
(***************************************************************************)

Digits == "0123456789"

IsDigit(c) == LetterIndex(Digits, c) # 0

\* int(s) for a string of decimal digits
RECURSIVE PyInt(_)
PyInt(s) ==
    IF Len(s) = 0 THEN 0
    ELSE 10 * PyInt(SubSeq(s, 1, Len(s) - 1)) + (LetterIndex(Digits, CharAt(s, Len(s))) - 1)

\* The pattern \d{4}-\d{2}-\d{2} matches at position i of q.
DatePatternAt(q, i) ==
    /\ i + 9 <= Len(q)
    /\ \A k \in {0, 1, 2, 3, 5, 6, 8, 9} : IsDigit(CharAt(q, i + k))
    /\ CharAt(q, i + 4) = "-"
    /\ CharAt(q, i + 7) = "-"

\* re.findall(r'\d{4}-\d{2}-\d{2}', question): the matches from position i
\* on, left to right, without overlap.
RECURSIVE FindDatesFrom(_, _)
FindDatesFrom(q, i) ==
    IF i + 9 > Len(q) THEN << >>
    ELSE IF DatePatternAt(q, i)
         THEN <<SubSeq(q, i, i + 9)>> \o FindDatesFrom(q, i + 10)
         ELSE FindDatesFrom(q, i + 1)

date_matches(q) == FindDatesFrom(q, 1)

\* datetime: the proleptic Gregorian calendar, years 1 to MAXYEAR.
MAXYEAR == 9999

IsLeap(y) == y % 4 = 0 /\ (y % 100 # 0 \/ y % 400 = 0)

DaysInMonth(y, m) ==
    IF m = 2 THEN (IF IsLeap(y) THEN 29 ELSE 28)
    ELSE IF m \in {4, 6, 9, 11} THEN 30 ELSE 31

RECURSIVE DaysBeforeMonth(_, _)
DaysBeforeMonth(y, m) ==
    IF m = 1 THEN 0 ELSE DaysBeforeMonth(y, m - 1) + DaysInMonth(y, m - 1)

\* date.toordinal(): 1 is 0001-01-01
ToOrdinal(d) ==
    LET y == d.year - 1
    IN  y * 365 + (y \div 4) - (y \div 100) + (y \div 400)
        + DaysBeforeMonth(d.year, d.month) + d.day

\* date.weekday(): 0 is Monday
Weekday(d) == (ToOrdinal(d) + 6) % 7

\* datetime.strptime(s, '%Y-%m-%d') of a string the pattern matched: the
\* date, or the text of the ValueError it raises.
StrptimeFields(s) ==
    [year |-> PyInt(SubSeq(s, 1, 4)), month |-> PyInt(SubSeq(s, 6, 7)),
     day |-> PyInt(SubSeq(s, 9, 10))]

StrptimeError(s) ==
    LET f == StrptimeFields(s)
    IN  IF f.month < 1 \/ f.month > 12 \/ f.day < 1 \/ f.day > 31
            THEN "time data does not match format '%Y-%m-%d'"
        ELSE IF f.year < 1 THEN "year 0 is out of range"
        ELSE IF f.day > DaysInMonth(f.year, f.month) THEN "day is out of range for month"
        ELSE ""

\* d1 <= d2 on datetimes
DateLeq(d1, d2) ==
    \/ d1.year < d2.year
    \/ d1.year = d2.year /\ d1.month < d2.month
    \/ d1.year = d2.year /\ d1.month = d2.month /\ d1.day <= d2.day

\* d + timedelta(days=1), for d before the last day of MAXYEAR
PlusOneDay(d) ==
    IF d.day < DaysInMonth(d.year, d.month) THEN [d EXCEPT !.day = d.day + 1]
    ELSE IF d.month < 12 THEN [d EXCEPT !.month = d.month + 1, !.day = 1]
    ELSE [year |-> d.year + 1, month |-> 1, day |-> 1]

\* d + timedelta(days=1) raises OverflowError
PlusOneDayOverflows(d) == d.year = MAXYEAR /\ d.month = 12 /\ d.day = 31

RECURSIVE ZeroPad(_, _)
ZeroPad(n, width) ==
    IF width = 0 THEN ""
    ELSE ZeroPad(n \div 10, width - 1) \o CharAt(Digits, (n % 10) + 1)

\* d.strftime('%Y-%m-%d'), for a year of four digits
Strftime(d) == ZeroPad(d.year, 4) \o "-" \o ZeroPad(d.month, 2) \o "-" \o ZeroPad(d.day, 2)

\* day_to_count = 2  # 0 is Monday, 1 is Tuesday, 2 is Wednesday, etc.
day_to_count == 2

\* ---- inputs ----

\* The days the questions name: the turn of 2021/2022 and January 2022, the
\* end of February in a leap year and in a common year, and the last days
\* of MAXYEAR.
QuestionDays ==
    {[year |-> 2021, month |-> 12, day |-> d] : d \in 29..31}
    \cup {[year |-> 2022, month |-> 1, day |-> d] : d \in {1, 2, 4, 5, 6, 12, 30, 31}}
    \cup {[year |-> 2022, month |-> 2, day |-> d] : d \in {1, 2}}
    \cup {[year |-> 2023, month |-> 2, day |-> 28], [year |-> 2023, month |-> 3, day |-> 1]}
    \cup {[year |-> 2024, month |-> 2, day |-> 28], [year |-> 2024, month |-> 2, day |-> 29],
          [year |-> 2024, month |-> 3, day |-> 6]}
    \cup {[year |-> 9999, month |-> 12, day |-> d] : d \in {22, 29, 30, 31}}

\* Strings the pattern matches that are no dates.
NotDates == {"2022-02-30", "2023-02-29", "2022-13-01", "0000-01-01", "2022-00-10"}

\* Questions with two dates at most MaxSpan days apart (or in reverse
\* order), with a string that is no date, and with another number of dates.
Questions ==
    {"How many Wednesdays are there in the date range " \o Strftime(p[1])
        \o " to " \o Strftime(p[2]) \o "?" :
        p \in {q \in QuestionDays \X QuestionDays :
                  ToOrdinal(q[2]) - ToOrdinal(q[1]) <= MaxSpan}}
    \cup {"From " \o n \o " to 2022-03-01" : n \in NotDates}
    \cup {"From 2022-01-01 to " \o n : n \in NotDates}
    \cup {"How many Wednesdays are there?",
          "Wednesdays since 2022-01-01",
          "Between 2022-01-01 and 2022-01-31, not 2022-02-28",
          "Order 12022-01-0112 of 2022-01-31"}

\* ---- the handler ----

\* An envelope that does not list the dates found.
date_range_not_two_dates_unlisted ==
    [status |-> "error", message |-> "Unable to extract two dates from the question"]

date_range_not_two_dates ==
    [status |-> "error", message |-> "Unable to extract two dates from the question",
     debug_info |-> [found_dates |-> date_matches(question)]]

DateInit ==
    /\ d_pc = "start"
    /\ question \in Questions
    /\ start_date = NoDate
    /\ end_date = NoDate
    /\ current_date = NoDate
    /\ wednesday_count = 0
    /\ loop_turns = 0
    /\ d_result = NoResult

\* From the findall to the start of the while loop.
ExtractDates ==
    /\ d_pc = "start"
    /\ LET m == date_matches(question)
       IN  \/ /\ Len(m) # 2
              /\ d_result' = date_range_not_two_dates
              /\ d_pc' = "done"
              /\ UNCHANGED <<start_date, end_date, current_date>>
           \/ /\ Len(m) = 2
              /\ StrptimeError(m[1]) # ""
              /\ d_result' = date_range_calculation_except(StrptimeError(m[1]))
              /\ d_pc' = "done"
              /\ UNCHANGED <<start_date, end_date, current_date>>
           \/ /\ Len(m) = 2
              /\ StrptimeError(m[1]) = ""
              /\ StrptimeError(m[2]) # ""
              /\ d_result' = date_range_calculation_except(StrptimeError(m[2]))
              /\ d_pc' = "done"
              /\ UNCHANGED <<start_date, end_date, current_date>>
           \/ /\ Len(m) = 2
              /\ StrptimeError(m[1]) = ""
              /\ StrptimeError(m[2]) = ""
              /\ start_date' = StrptimeFields(m[1])
              /\ end_date' = StrptimeFields(m[2])
              /\ current_date' = StrptimeFields(m[1])
              /\ d_pc' = "loop"
              /\ d_result' = d_result
    /\ UNCHANGED <<question, wednesday_count, loop_turns, notDateVars>>

\* A loop that leaves out the last day.
LoopConditionBefore ==
    DateLeq(current_date, end_date) /\ current_date # end_date

\* while current_date <= end_date:
LoopCondition == DateLeq(current_date, end_date)

\* One turn of the while loop.
CountDay ==
    /\ d_pc = "loop"
    /\ LoopCondition
    /\ loop_turns' = loop_turns + 1
    /\ wednesday_count' =
          IF Weekday(current_date) = day_to_count
          THEN wednesday_count + 1 ELSE wednesday_count
    /\ \/ /\ ~PlusOneDayOverflows(current_date)
          /\ current_date' = PlusOneDay(current_date)
          /\ UNCHANGED <<d_pc, d_result>>
       \/ /\ PlusOneDayOverflows(current_date)
          /\ d_result' = date_range_calculation_except("date value out of range")
          /\ d_pc' = "done"
          /\ current_date' = current_date
    /\ UNCHANGED <<question, start_date, end_date, notDateVars>>

\* The loop is over: the success envelope.
ReturnCount ==
    /\ d_pc = "loop"
    /\ ~LoopCondition
    /\ d_result' = [status |-> "success", start_date |-> Strftime(start_date),
                    end_date |-> Strftime(end_date), answer |-> wednesday_count]
    /\ d_pc' = "done"
    /\ UNCHANGED <<question, start_date, end_date, current_date, wednesday_count,
                   loop_turns, notDateVars>>

DateNext == ExtractDates \/ CountDay \/ ReturnCount

DateSpecInit == DateInit /\ RouterIdle /\ SqlIdle /\ MainIdle /\ JsonIdle /\ ReplIdle /\ ImgIdle /\ SheetsIdle /\ ExcelIdle /\ ZipIdle /\ CliIdle /\ UnicodeIdle

DateSpec == DateSpecInit /\ [][DateNext]_vars

\* ---- C9 ----

\* 2022-01-05 was a Wednesday.
AWednesday == [year |-> 2022, month |-> 1, day |-> 5]

\* The number of Wednesdays from d1 to d2, both included.
WednesdaysBetween(d1, d2) ==
    Cardinality({n \in ToOrdinal(d1)..ToOrdinal(d2) : (n - ToOrdinal(AWednesday)) % 7 = 0})

TwoValidDates(q) ==
    /\ Len(date_matches(q)) = 2
    /\ \A i \in 1..2 : StrptimeError(date_matches(q)[i]) = ""

January2022 ==
    "How many Wednesdays are there in the date range 2022-01-01 to 2022-01-31?"

\* C9: a question with exactly two valid dates is answered with a success
\* envelope whose answer is the number of Wednesdays from the first date to
\* the second, both included; for 2022-01-01 to 2022-01-31 the answer is 4.
C9_WednesdayCount ==
    (d_pc = "done" /\ TwoValidDates(question)) =>
        /\ d_result.status = "success"
        /\ d_result.answer =
              WednesdaysBetween(StrptimeFields(date_matches(question)[1]),
                                StrptimeFields(date_matches(question)[2]))
        /\ (question = January2022 => d_result.answer = 4)

\* ---- C27 ----

\* A string of the form YYYY-MM-DD names a day of the calendar.
RealDate(s) ==
    LET y == PyInt(SubSeq(s, 1, 4))
        m == PyInt(SubSeq(s, 6, 7))
        d == PyInt(SubSeq(s, 9, 10))
    IN  /\ y \in 1..MAXYEAR
        /\ m \in 1..12
        /\ d \in 1..DaysInMonth(y, m)

\* Nothing was counted: the loop was never entered.
CountedNothing == wednesday_count = 0 /\ current_date = NoDate

\* C27: a question in which the pattern YYYY-MM-DD is not found exactly
\* twice (not at all, once, three times or more) gets the error envelope
\* "Unable to extract two dates from the question" with the dates found, and
\* nothing is counted; a question in which it is found twice, one of the two
\* being no day of the calendar, gets an error envelope and no count.
C27_NotTwoDates ==
    d_pc = "done" =>
        LET found == date_matches(question)
        IN  /\ Len(found) # 2 =>
                  /\ d_result.status = "error"
                  /\ d_result.message = "Unable to extract two dates from the question"
                  /\ "debug_info" \in DOMAIN d_result
                  /\ d_result.debug_info.found_dates = found
                  /\ CountedNothing
            /\ (Len(found) = 2 /\ \E i \in 1..2 : ~RealDate(found[i])) =>
                  /\ d_result.status = "error"
                  /\ "answer" \notin DOMAIN d_result
                  /\ CountedNothing

\* The question named 2022-02-30, and the handler has returned.
C27_Witness ==
    /\ d_pc = "done"
    /\ question = "From 2022-02-30 to 2022-03-01"
    /\ d_result.status = "error"

\* ---- C28 ----

\* The turns the loop is to take for the two dates of the question.
DaysToVisit ==
    LET first == ToOrdinal(StrptimeFields(date_matches(question)[1]))
        second == ToOrdinal(StrptimeFields(date_matches(question)[2]))
    IN  IF second - first + 1 > 0 THEN second - first + 1 ELSE 0

\* C28: for every two dates the day-by-day loop comes to an end, after
\* exactly max(0, (end - start in days) + 1) turns; when the first date of
\* the question is later than the second the body never runs and the
\* handler returns status "success" with answer 0, the dates not swapped.
\* While the loop runs, every turn taken has moved the current date one day
\* on from the start date, and the turns taken never exceed the turns to
\* take; when the handler is over they are equal.
C28_LoopTerminates ==
    /\ d_pc = "loop" =>
          /\ loop_turns = ToOrdinal(current_date) - ToOrdinal(start_date)
          /\ loop_turns <= DaysToVisit
    /\ (d_pc = "done" /\ TwoValidDates(question)) =>
          /\ loop_turns = DaysToVisit
          /\ DaysToVisit = 0 =>
                /\ d_result.status = "success"
                /\ d_result.answer = 0
                /\ d_result.start_date = date_matches(question)[1]
                /\ d_result.end_date = date_matches(question)[2]

\* The first date was later than the second, and the handler has returned.
C28_Witness ==
    /\ d_pc = "done"
    /\ TwoValidDates(question)
    /\ ~DateLeq(start_date, end_date)
    /\ loop_turns = 0
    /\ d_result.status = "success"

(***************************************************************************)
(* _process_sql_sales_calculation: the query on the rows of the table.     *)
(* A price is a number of hundredths; units * price is in hundredths too.  *)
(***************************************************************************)

\* SQLite's TRIM(X) with every kind of whitespace removed
SqlTrimWhitespace(s) == PyStrip(s)

\* SQLite's TRIM(X): removes spaces, and nothing else, from both ends of X.
RECURSIVE SqlTrim(_)
SqlTrim(s) ==
    IF Len(s) = 0 THEN s
    ELSE IF CharAt(s, 1) = " " THEN SqlTrim(SubSeq(s, 2, Len(s)))
    ELSE IF CharAt(s, Len(s)) = " " THEN SqlTrim(SubSeq(s, 1, Len(s) - 1))
    ELSE s

\* SQLite's LOWER(X): the ASCII letters of X in lower case.
SqlLower(s) == PyLower(s)

\* WHERE LOWER(TRIM(type)) = 'gold'
Where(r) == SqlLower(SqlTrim(r.type)) = "gold"

\* SUM(): NULL until the first value, the sum of the values after it.
SqlSumStep(acc, v) ==
    IF acc = SqlNull THEN SqlReal(v) ELSE SqlReal(acc.hundredths + v)

sample_data ==
    << [type |-> "silver", units |-> 422, price |-> 126],
       [type |-> "GOLD",   units |-> 400, price |-> 63],
       [type |-> "GOLD",   units |-> 460, price |-> 90],
       [type |-> "GOLD",   units |-> 487, price |-> 125],
       [type |-> "BRONZE", units |-> 395, price |-> 74] >>

\* ---- inputs ----

TicketTypes == {"gold", "GOLD", " Gold  ", "\tgold", "gold\n", "silver", "golden"}

TicketRows == [type : TicketTypes, units : {0, 3}, price : {63, 125}]

\* What file_path can name: nothing, a database with a tickets table of
\* text types, integer units and real prices, a database without that
\* table, and a file that is no database.
Databases ==
    {NoDb}
    \cup {[kind |-> "sqlite", tickets |-> t] :
             t \in UNION {[1..n -> TicketRows] : n \in 0..MaxRows}}
    \cup {[kind |-> "no table", tickets |-> << >>],
          [kind |-> "text", tickets |-> << >>]}

\* ---- the handler ----

SqlInit ==
    /\ s_pc = "start"
    /\ db \in Databases
    /\ tickets = << >>
    /\ row = 0
    /\ total_sales = SqlNull
    /\ row_count = 0
    /\ s_result = NoResult

\* if not file_path: ... else: ...  (the connection and its table)
SqlConnect ==
    /\ s_pc = "start"
    /\ tickets' = IF db.kind = "none" THEN sample_data ELSE db.tickets
    /\ s_pc' = "execute"
    /\ UNCHANGED <<db, row, total_sales, row_count, s_result, notSqlVars>>

\* cursor.execute(sql_query): the statement is prepared, or it raises.
SqlExecute ==
    /\ s_pc = "execute"
    /\ \/ /\ db.kind = "no table"
          /\ s_result' = sql_sales_calculation_except("no such table: tickets")
          /\ s_pc' = "done"
          /\ row' = row
       \/ /\ db.kind = "text"
          /\ s_result' = sql_sales_calculation_except("file is not a database")
          /\ s_pc' = "done"
          /\ row' = row
       \/ /\ db.kind \in {"none", "sqlite"}
          /\ row' = 1
          /\ s_pc' = "scan"
          /\ s_result' = s_result
    /\ UNCHANGED <<db, tickets, total_sales, row_count, notSqlVars>>

\* The query looks at one row of the table.
SqlScanRow ==
    /\ s_pc = "scan"
    /\ row <= Len(tickets)
    /\ IF Where(tickets[row])
       THEN /\ total_sales' = SqlSumStep(total_sales, tickets[row].units * tickets[row].price)
            /\ row_count' = row_count + 1
       ELSE UNCHANGED <<total_sales, row_count>>
    /\ row' = row + 1
    /\ UNCHANGED <<s_pc, db, tickets, s_result, notSqlVars>>

\* result = cursor.fetchone() and the success envelope
SqlReturn ==
    /\ s_pc = "scan"
    /\ row > Len(tickets)
    /\ s_result' = [status |-> "success", answer |-> total_sales]
    /\ s_pc' = "done"
    /\ UNCHANGED <<db, tickets, row, total_sales, row_count, notSqlVars>>

SqlNext == SqlConnect \/ SqlExecute \/ SqlScanRow \/ SqlReturn

SqlSpecInit == SqlInit /\ RouterIdle /\ DateIdle /\ MainIdle /\ JsonIdle /\ ReplIdle /\ ImgIdle /\ SheetsIdle /\ ExcelIdle /\ ZipIdle /\ CliIdle /\ UnicodeIdle

SqlSpec == SqlSpecInit /\ [][SqlNext]_vars

\* ---- C10 ----

RECURSIVE SalesOf(_)
SalesOf(rows) ==
    IF rows = {} THEN 0
    ELSE LET i == CHOOSE j \in rows : TRUE
         IN  tickets[i].units * tickets[i].price + SalesOf(rows \ {i})

\* t is "gold" in some mix of cases, with whitespace around it.
GoldInWhitespace(t) ==
    \E i \in 1..Len(t) :
        /\ i + 3 <= Len(t)
        /\ PyLower(SubSeq(t, i, i + 3)) = "gold"
        /\ \A k \in (1..(i - 1)) \cup ((i + 4)..Len(t)) : CharAt(t, k) \in PyWhitespace

\* t is "gold" in some mix of cases, with spaces around it.
GoldInSpaces(t) ==
    \E i \in 1..Len(t) :
        /\ i + 3 <= Len(t)
        /\ PyLower(SubSeq(t, i, i + 3)) = "gold"
        /\ \A k \in (1..(i - 1)) \cup ((i + 4)..Len(t)) : CharAt(t, k) = " "

\* The rows of the table whose type is one or the other.
GoldRowsInWhitespace == {i \in 1..Len(tickets) : GoldInWhitespace(tickets[i].type)}

GoldRowsInSpaces == {i \in 1..Len(tickets) : GoldInSpaces(tickets[i].type)}

SqlSucceeded == s_pc = "done" /\ s_result.status = "success"

Filenames == {"q.zip", "data.zip", "reports/q.zip"}

\* The "file" field of a request: none, or a client-supplied filename and
\* the uploaded bytes, which are the upload's own and are a ZIP or not.
NoUpload == [present |-> FALSE, filename |-> "", bytes |-> NoBytes]

UploadsOf(r) ==
    {NoUpload}
    \cup {[present |-> TRUE, filename |-> fn,
           bytes |-> [zip |-> z, owner |-> r, size |-> r]] :
             fn \in Filenames, z \in BOOLEAN}

FormsOf(r) == [question : {"", "How many rows are there?"}, file : UploadsOf(r)]

\* temp_file_path = f"/tmp/{upload_file.filename}"
ScratchPath(filename) == "/tmp/" \o filename

\* The paths of /tmp a scratch file can be created at.
TmpPaths == {ScratchPath(fn) : fn \in {f \in Filenames : ~PyIn("/", f)}}

\* The members of an archive: one text file, whose text is the upload's own.
Namelist(bytes) == {[name |-> "data.csv", text |-> bytes.owner]}

\* ---- the file system ----

\* open(path, "wb") raises: the directory of the path does not exist
OpenRaises(path) == path \notin TmpPaths

\* open(path, "wb"): the file at the path, emptied, or a new empty file
OpenWb(fs, path, r) ==
    [fs EXCEPT ![path] = IF fs[path].exists
                         THEN [fs[path] EXCEPT !.bytes = NoBytes]
                         ELSE [exists |-> TRUE, inode |-> r, bytes |-> NoBytes]]

\* Bytes written at offset 0 of a file: a file that held more bytes keeps
\* its tail, and is neither the old file nor the new one.
WriteAtStart(old, new) ==
    IF new.size >= old.size THEN new ELSE [zip |-> FALSE, owner |-> 0, size |-> old.size]

\* buffer.write(...) through an open file: it reaches the file at the path
\* only while that is still the file that was opened.
Write(fs, path, inode, bytes) ==
    IF fs[path].exists /\ fs[path].inode = inode
    THEN [fs EXCEPT ![path].bytes = WriteAtStart(fs[path].bytes, bytes)]
    ELSE fs

\* What zipfile.ZipFile(zip_path, 'r') raises ("" when it opens).
ZipFileError(fs, path) ==
    IF ~fs[path].exists THEN "[Errno 2] No such file or directory: '" \o path \o "'"
    ELSE IF ~fs[path].bytes.zip THEN "File is not a zip file"
    ELSE ""

\* zip_ref.extractall("/tmp/extracted"): members replace files of their name
ExtractAll(dir, bytes) ==
    [exists |-> TRUE,
     files |-> {f \in dir.files : \A m \in Namelist(bytes) : m.name # f.name}
               \cup Namelist(bytes)]

\* extracted_files: the listed members, as read back from /tmp/extracted
ExtractedFiles(dir, bytes) ==
    {f \in dir.files : \E m \in Namelist(bytes) : m.name = f.name}

HTTPException(status_code, detail) == [status_code |-> status_code, detail |-> detail]

\* What generate_content is given: a text, and the files whose names and
\* contents are set into it.
NoPrompt == [text |-> "", files |-> {}]

\* The template of get_gemini_response around the question and the context.
FullPromptWithContext(prompt, hasFile, context) ==
    [text |-> "Task: Carefully analyze the provided context and answer the question precisely. Question: "
              \o prompt \o " Context Files: Instructions: ...",
     files |-> context]

\* full_prompt: the template when there is a file, the prompt itself when not
FullPrompt(prompt, hasFile, context) ==
    IF hasFile THEN FullPromptWithContext(prompt, hasFile, context)
    ELSE [text |-> prompt, files |-> {}]

\* ---- process_question ----

MainInit ==
    /\ m_pc = [r \in Requests |-> "new"]
    /\ form \in {f \in [Requests -> UNION {FormsOf(r) : r \in Requests}] :
                    \A r \in Requests : f[r] \in FormsOf(r)}
    /\ temp_file_path = [r \in Requests |-> None]
    /\ buffer = [r \in Requests |-> 0]
    /\ tmp = [p \in TmpPaths |-> NoFile]
    /\ extracted = NoDirectory
    /\ model_call = [r \in Requests |-> "none"]
    /\ full_prompt = [r \in Requests |-> NoPrompt]
    /\ raised = [r \in Requests |-> << >>]
    /\ response = [r \in Requests |-> NoResponse]

\* The client of request r receives the HTTPException e.
Raise(r, inner, e) ==
    /\ raised' = [raised EXCEPT ![r] = raised[r] \o inner \o <<e>>]
    /\ response' = [response EXCEPT
                       ![r] = [status |-> e.status_code, detail |-> e.detail,
                               context |-> {}]]

\* get_gemini_response(question, path) and what follows it in
\* process_question, on the files fs of /tmp: no await in it suspends.
get_gemini_response(r, path, fs) ==
    LET hasFile == ~Falsy(path)
        zipError == IF hasFile THEN ZipFileError(fs, path) ELSE ""
        dir == IF hasFile THEN ExtractAll(extracted, fs[path].bytes) ELSE extracted
        context == IF hasFile THEN ExtractedFiles(dir, fs[path].bytes) ELSE {}
    IN  \/ \* extract_files_from_zip raises; the guard of get_gemini_response
           \* catches its HTTPException and raises its own
           /\ zipError # ""
           /\ extracted' = [extracted EXCEPT !.exists = TRUE]
           /\ tmp' = fs
           /\ Raise(r, <<HTTPException(400, "Invalid zip file: " \o zipError)>>,
                    HTTPException(500, "Error processing request"))
           /\ UNCHANGED <<model_call, full_prompt>>
        \/ \* model.generate_content raises
           /\ zipError = ""
           /\ extracted' = dir
           /\ tmp' = fs
           /\ model_call' = [model_call EXCEPT ![r] = "raised"]
           /\ full_prompt' = [full_prompt EXCEPT ![r] = FullPrompt(form[r].question, hasFile, context)]
           /\ Raise(r, << >>, HTTPException(500, "Error processing request"))
        \/ \* the answer, and the clean-up
           /\ zipError = ""
           /\ model_call' = [model_call EXCEPT ![r] = "ok"]
           /\ full_prompt' = [full_prompt EXCEPT ![r] = FullPrompt(form[r].question, hasFile, context)]
           /\ tmp' = IF hasFile THEN [fs EXCEPT ![path] = NoFile] ELSE fs
           /\ extracted' = NoDirectory
           /\ response' = [response EXCEPT
                              ![r] = [status |-> 200, detail |-> "", context |-> context]]
           /\ UNCHANGED raised

\* process_question, up to the await of upload_file.read().
ProcessQuestion(r) ==
    /\ m_pc[r] = "new"
    /\ LET file_ == form[r].file
           path == ScratchPath(file_.filename)
       IN  \/ /\ form[r].question = ""
              /\ Raise(r, << >>, HTTPException(400, "Question is required"))
              /\ m_pc' = [m_pc EXCEPT ![r] = "done"]
              /\ UNCHANGED <<buffer, tmp, extracted, model_call, full_prompt>>
           \/ /\ form[r].question # ""
              /\ ~file_.present
              /\ get_gemini_response(r, None, tmp)
              /\ m_pc' = [m_pc EXCEPT ![r] = "done"]
              /\ UNCHANGED buffer
           \/ /\ form[r].question # ""
              /\ file_.present
              /\ OpenRaises(path)
              /\ Raise(r, << >>, HTTPException(500, "File could not be saved."))
              /\ m_pc' = [m_pc EXCEPT ![r] = "done"]
              /\ UNCHANGED <<buffer, tmp, extracted, model_call, full_prompt>>
           \/ /\ form[r].question # ""
              /\ file_.present
              /\ ~OpenRaises(path)
              /\ tmp' = OpenWb(tmp, path, r)
              /\ buffer' = [buffer EXCEPT ![r] = OpenWb(tmp, path, r)[path].inode]
              /\ m_pc' = [m_pc EXCEPT ![r] = "reading"]
              /\ UNCHANGED <<extracted, model_call, full_prompt, raised, response>>
    /\ UNCHANGED <<form, temp_file_path, notMainVars>>

\* process_question, from the uploaded bytes to the response.
UploadRead(r) ==
    /\ m_pc[r] = "reading"
    /\ LET path == ScratchPath(form[r].file.filename)
       IN  /\ temp_file_path' = [temp_file_path EXCEPT ![r] = path]
           /\ get_gemini_response(r, path, Write(tmp, path, buffer[r], form[r].file.bytes))
    /\ buffer' = [buffer EXCEPT ![r] = 0]
    /\ m_pc' = [m_pc EXCEPT ![r] = "done"]
    /\ UNCHANGED <<form, notMainVars>>

MainNext == \E r \in Requests : ProcessQuestion(r) \/ UploadRead(r)

MainSpecInit == MainInit /\ RouterIdle /\ DateIdle /\ SqlIdle /\ JsonIdle /\ ReplIdle /\ ImgIdle /\ SheetsIdle /\ ExcelIdle /\ ZipIdle /\ CliIdle /\ UnicodeIdle

MainSpec == MainSpecInit /\ [][MainNext]_vars

\* ---- C6 ----

\* Request r is in flight with its scratch file open.
InFlight(r) == m_pc[r] = "reading"

\* Request r carried a file that can be saved and is a ZIP archive.
CarriedZip(r) ==
    /\ form[r].question # ""
    /\ form[r].file.present
    /\ ~OpenRaises(ScratchPath(form[r].file.filename))
    /\ form[r].file.bytes.zip

\* C6: requests share no mutable state. The scratch file of a request in
\* flight is there, is the file the request opened, and is open in no other
\* request in flight; and a request that carried a ZIP archive has its
\* archive read, and when the model answers, the answer is made from the
\* members of its own archive.
C6_NoSharedState ==
    /\ \A r \in Requests :
          InFlight(r) =>
              LET path == ScratchPath(form[r].file.filename)
              IN  /\ tmp[path].exists
                  /\ tmp[path].inode = buffer[r]
                  /\ \A o \in Requests \ {r} :
                        InFlight(o) => ScratchPath(form[o].file.filename) # path
    /\ \A r \in Requests :
          (m_pc[r] = "done" /\ CarriedZip(r)) =>
              /\ model_call[r] # "none"
              /\ model_call[r] = "ok" =>
                    /\ response[r].status = 200
                    /\ response[r].context = Namelist(form[r].file.bytes)

\* ---- C7 ----

\* C7: once a request that carried a file is over, whatever its response,
\* the scratch file saved for it and the directory /tmp/extracted no longer
\* exist.
C7_UploadGoneAfterRequest ==
    \A r \in Requests :
        (m_pc[r] = "done" /\ form[r].question # "" /\ form[r].file.present) =>
            /\ \A p \in TmpPaths :
                  p = ScratchPath(form[r].file.filename) => ~tmp[p].exists
            /\ ~extracted.exists

\* ---- C17 ----

\* The file system as it was before any request: nothing in /tmp.
NothingSaved == \A p \in TmpPaths : ~tmp[p].exists

\* C17: the question is required. A request whose question is empty gets
\* HTTP 400 "Question is required", and for it no file is saved and the model
\* is not called; a request with a question and no file is accepted, and the
\* model is called with the question alone.
C17_QuestionRequired ==
    \A r \in Requests :
        m_pc[r] = "done" =>
            /\ form[r].question = "" =>
                  /\ response[r].status = 400
                  /\ response[r].detail = "Question is required"
                  /\ raised[r] = <<HTTPException(400, "Question is required")>>
                  /\ model_call[r] = "none"
                  /\ full_prompt[r] = NoPrompt
                  /\ temp_file_path[r] = None
                  /\ (\A o \in Requests \ {r} : m_pc[o] = "new") => NothingSaved
            /\ (form[r].question # "" /\ ~form[r].file.present) =>
                  /\ model_call[r] # "none"
                  /\ full_prompt[r] = [text |-> form[r].question, files |-> {}]
                  /\ response[r].status # 400
                  /\ model_call[r] = "ok" => response[r].status = 200

\* The first request had no question though it carried a file, and is over
\* before the other began; the other had a question and no file, and the
\* model answered it.
C17_Witness ==
    /\ m_pc[1] = "done" /\ form[1].question = "" /\ form[1].file.present
    /\ m_pc[2] = "done" /\ form[2].question # "" /\ ~form[2].file.present
    /\ model_call[2] = "ok"
    /\ response[1].status = 400

\* ---- C22 ----

\* The HTTPException extract_files_from_zip raised for request r, if any.
InvalidZipRaised(r) ==
    {i \in 1..Len(raised[r]) :
        /\ raised[r][i].status_code = 400
        /\ SubSeq(raised[r][i].detail, 1, 18) = "Invalid zip file: "}

\* C22: when the uploaded file cannot be opened or extracted as a ZIP
\* archive, the client receives the status and detail extract_files_from_zip
\* raised, 400 and "Invalid zip file: <reason>", and not a 500.
C22_InvalidZipIs400 ==
    \A r \in Requests :
        \A i \in InvalidZipRaised(r) :
            /\ response[r].status = 400
            /\ response[r].detail = raised[r][i].detail

\* ---- C23 ----

\* C23: save_upload_file_temporarily gives each upload a scratch path of its
\* own: two uploads in flight at the same time are never saved to the same
\* path, whatever filenames their clients gave.
C23_UniqueScratchPath ==
    \A r \in Requests : \A o \in Requests \ {r} :
        (InFlight(r) /\ InFlight(o)) =>
            ScratchPath(form[r].file.filename) # ScratchPath(form[o].file.filename)

(***************************************************************************)
(* _process_json_sort: the sorting and the answer.                         *)
(***************************************************************************)

\* The letters in the order of their code points.
Letters == UpperLetters \o LowerLetters

\* a < b on strings of letters
RECURSIVE StrLess(_, _)
StrLess(a, b) ==
    IF Len(b) = 0 THEN FALSE
    ELSE IF Len(a) = 0 THEN TRUE
    ELSE IF CharAt(a, 1) = CharAt(b, 1)
         THEN StrLess(SubSeq(a, 2, Len(a)), SubSeq(b, 2, Len(b)))
    ELSE LetterIndex(Letters, CharAt(a, 1)) < LetterIndex(Letters, CharAt(b, 1))

\* key(x) < key(y), for the keys of the three sorted() calls:
\* (x['age'], x['name']), x['age'] and x['name'].
KeyLess(key, x, y) ==
    IF key = "age,name" THEN x.age < y.age \/ (x.age = y.age /\ StrLess(x.name, y.name))
    ELSE IF key = "age" THEN x.age < y.age
    ELSE StrLess(x.name, y.name)

\* x put into the sorted list s, behind every record that is not after it.
RECURSIVE InsertSorted(_, _, _)
InsertSorted(key, s, x) ==
    IF Len(s) = 0 THEN <<x>>
    ELSE IF KeyLess(key, x, s[1]) THEN <<x>> \o s
    ELSE <<s[1]>> \o InsertSorted(key, Tail(s), x)

\* sorted(s, key=...): the records in the order of their keys, records of
\* equal keys in the order they had in s.
RECURSIVE PySorted(_, _)
PySorted(key, s) ==
    IF Len(s) = 0 THEN << >>
    ELSE InsertSorted(key, PySorted(key, SubSeq(s, 1, Len(s) - 1)), s[Len(s)])

\* str(n) for n >= 0
RECURSIVE PyStr(_)
PyStr(n) ==
    IF n < 10 THEN CharAt(Digits, n + 1)
    ELSE PyStr(n \div 10) \o CharAt(Digits, (n % 10) + 1)

\* json.dumps(array, separators=(',', ':')) of records with a name of
\* letters and an age
RECURSIVE JsonItems(_)
JsonItems(s) ==
    IF Len(s) = 0 THEN ""
    ELSE "{\"name\":\"" \o s[1].name \o "\",\"age\":" \o PyStr(s[1].age) \o "}"
         \o (IF Len(s) = 1 THEN "" ELSE ",") \o JsonItems(Tail(s))

JsonDumps(s) == "[" \o JsonItems(s) \o "]"

builtin_json_data ==
    << [name |-> "Alice", age |-> 80], [name |-> "Bob", age |-> 52],
       [name |-> "Charlie", age |-> 1], [name |-> "David", age |-> 10],
       [name |-> "Emma", age |-> 34], [name |-> "Frank", age |-> 17],
       [name |-> "Grace", age |-> 79], [name |-> "Henry", age |-> 61],
       [name |-> "Ivy", age |-> 66], [name |-> "Jack", age |-> 25],
       [name |-> "Karen", age |-> 21], [name |-> "Liam", age |-> 69],
       [name |-> "Mary", age |-> 78], [name |-> "Nora", age |-> 25],
       [name |-> "Oscar", age |-> 12], [name |-> "Paul", age |-> 66] >>

\* ---- inputs ----

\* What the model answers to the sort prompt, or the error it raises.
SortReplies ==
    {[ok |-> TRUE, text |-> t] :
        t \in {"Sort by age (ascending)", "Sort by name (alphabetical)",
               "Sort by age, then by name", " SORT BY AGE\n", "by Name", "AGE",
               "Sort by size", ""}}
    \cup {[ok |-> FALSE, text |-> ModelError]}

\* The arrays sorted() is given: the array of the handler, and short arrays
\* in which names and ages repeat.
JsonRecords == [name : {"Al", "Bo", "al"}, age : {7, 25}]

JsonArrays ==
    {builtin_json_data} \cup UNION {[1..n -> JsonRecords] : n \in 0..MaxRecords}

\* ---- the handler ----

JsonInit ==
    /\ j_pc = "start"
    /\ json_data \in JsonArrays
    /\ sort_reply \in SortReplies
    /\ sort_instruction = ""
    /\ sorted_json = << >>
    /\ j_result = NoResult

\* sort_response = self.model.generate_content(sort_prompt), and the
\* instruction taken from it
SortCriteria ==
    /\ j_pc = "start"
    /\ \/ /\ ~sort_reply.ok
          /\ j_result' = [status |-> "raised", exception |-> sort_reply.text]
          /\ j_pc' = "done"
          /\ UNCHANGED sort_instruction
       \/ /\ sort_reply.ok
          /\ sort_instruction' = PyLower(PyStrip(sort_reply.text))
          /\ j_pc' = "sort"
          /\ UNCHANGED j_result
    /\ UNCHANGED <<json_data, sort_reply, sorted_json, notJsonVars>>

\* The chain with the key of the name sort in the branch of the age sort.
ApplySortingNameKey(by_age_and_name, by_age, by_name) ==
    IF by_age_and_name THEN PySorted("age,name", json_data)
    ELSE IF by_age THEN PySorted("name", json_data)
    ELSE IF by_name THEN PySorted("name", json_data)
    ELSE json_data

\* The if / elif chain on sort_instruction.
ApplySorting(by_age_and_name, by_age, by_name) ==
    IF by_age_and_name THEN PySorted("age,name", json_data)
    ELSE IF by_age THEN PySorted("age", json_data)
    ELSE IF by_name THEN PySorted("name", json_data)
    ELSE json_data

\* The sorting and the success envelope.
SortAndReturn ==
    /\ j_pc = "sort"
    /\ sorted_json' =
          ApplySorting(PyIn("age", sort_instruction) /\ PyIn("name", sort_instruction),
                       PyIn("age", sort_instruction), PyIn("name", sort_instruction))
    /\ j_result' = [status |-> "success", answer |-> JsonDumps(sorted_json'),
                    sort_method |-> sort_instruction]
    /\ j_pc' = "done"
    /\ UNCHANGED <<json_data, sort_reply, sort_instruction, notJsonVars>>

JsonNext == SortCriteria \/ SortAndReturn

JsonSpecInit == JsonInit /\ RouterIdle /\ DateIdle /\ SqlIdle /\ MainIdle /\ ReplIdle /\ ImgIdle /\ SheetsIdle /\ ExcelIdle /\ ZipIdle /\ CliIdle /\ UnicodeIdle

JsonSpec == JsonSpecInit /\ [][JsonNext]_vars

\* ---- C11 ----

\* How many times x is in the array s.
Occurrences(s, x) == Cardinality({i \in 1..Len(s) : s[i] = x})

IsPermutation(s, t) ==
    /\ Len(s) = Len(t)
    /\ \A i \in 1..Len(t) : Occurrences(s, t[i]) = Occurrences(t, t[i])

NonDecreasingAge(s) == \A i \in 1..(Len(s) - 1) : s[i].age <= s[i + 1].age

SortedByAgeReturned ==
    j_pc = "done" /\ j_result.status = "success" /\ PyIn("age", sort_instruction)

RECURSIVE replace_iitm(_)
replace_iitm(text) ==
    IF Len(text) < 4 THEN text
    ELSE IF PyLower(SubSeq(text, 1, 4)) = "iitm"
         THEN "IIT Madras" \o replace_iitm(SubSeq(text, 5, Len(text)))
         ELSE SubSeq(text, 1, 1) \o replace_iitm(SubSeq(text, 2, Len(text)))

\* The names of the files that lie directly in directory d.
FilesOf(tree, d) == {f.name : f \in {g \in tree : g.dir = d}}

\* The directories below the top that have files in them.
SubDirs(tree) == {f.dir : f \in tree} \ {""}

\* sorted(files), for a set of distinct file names
RECURSIVE SortedNames(_)
SortedNames(names) ==
    IF names = {} THEN << >>
    ELSE LET first == CHOOSE n \in names : \A o \in names \ {n} : StrLess(n, o)
         IN  <<first>> \o SortedNames(names \ {first})

\* The files of directory d, in the order of sorted(files).
RECURSIVE FilesInNameOrder(_, _, _)
FilesInNameOrder(tree, d, names) ==
    IF Len(names) = 0 THEN << >>
    ELSE <<CHOOSE f \in tree : f.dir = d /\ f.name = names[1]>>
         \o FilesInNameOrder(tree, d, Tail(names))

\* for root, _, files in os.walk(temp_dir): for filename in sorted(files):
\* the files read, when the walk visits the directories in this order.
RECURSIVE WalkSorted(_, _)
WalkSorted(tree, order) ==
    IF Len(order) = 0 THEN << >>
    ELSE FilesInNameOrder(tree, order[1], SortedNames(FilesOf(tree, order[1])))
         \o WalkSorted(tree, Tail(order))

\* The orders os.walk can visit the directories in: the top first, then
\* the directories below it in the order the file system lists them.
Orderings(dirs) ==
    {o \in [1..Cardinality(dirs) -> dirs] : \A i, j \in 1..Cardinality(dirs) : i # j => o[i] # o[j]}

WalkOrders(tree) == {<<"">> \o o : o \in Orderings(SubDirs(tree))}

\* ''.join(all_content)
RECURSIVE JoinTexts(_)
JoinTexts(files) == IF Len(files) = 0 THEN "" ELSE files[1].text \o JoinTexts(Tail(files))

\* hashlib.sha256(text.encode('utf-8')).hexdigest(): the digest, known by
\* the text it is the digest of (no two texts of the model share a digest).
Sha256Hex(text) == [sha256 |-> text]

\* ---- inputs ----

MemberDirs == {"", "a", "b"}

MemberNames == {"x.txt", "y.txt"}

MemberTexts == {"iitm\n", "IIT\n"}

\* The ZIP archives: at most MaxMembers members of different paths.
Archives ==
    {m \in SUBSET [dir : MemberDirs, name : MemberNames, text : MemberTexts] :
        /\ Cardinality(m) <= MaxMembers
        /\ \A f, g \in m : (f.dir = g.dir /\ f.name = g.name) => f = g}

ReplUploads ==
    {[path |-> "/tmp/q.zip", kind |-> "zip", members |-> m] : m \in Archives}
    \cup {[path |-> None, kind |-> "none", members |-> {}],
          [path |-> "/tmp/notes.txt", kind |-> "text", members |-> {}],
          [path |-> "/tmp/gone.zip", kind |-> "missing", members |-> {}],
          [path |-> "/tmp/broken.zip", kind |-> "garbage", members |-> {}]}

\* ---- the handler ----

ReplInit ==
    /\ r_pc = "start"
    /\ archive \in ReplUploads
    /\ temp_dir = {}
    /\ temp_dir_exists = FALSE
    /\ walk_order = << >>
    /\ read_order = << >>
    /\ r_result = NoResult

\* The validation, mkdtemp() and the extraction.
ExtractArchive ==
    /\ r_pc = "start"
    /\ \/ /\ NotAZipPath(archive)
          /\ r_result' = [status |-> "error", message |-> "Invalid or missing ZIP file"]
          /\ r_pc' = "done"
          /\ UNCHANGED <<temp_dir, temp_dir_exists>>
       \/ /\ ~NotAZipPath(archive)
          /\ archive.kind = "missing"
          /\ r_result' = file_replacement_sha256_except(NoSuchFile)
          /\ r_pc' = "done"
          /\ UNCHANGED <<temp_dir, temp_dir_exists>>
       \/ /\ ~NotAZipPath(archive)
          /\ archive.kind = "garbage"
          /\ r_result' = file_replacement_sha256_except(NotAZip)
          /\ r_pc' = "done"
          /\ UNCHANGED <<temp_dir, temp_dir_exists>>
       \/ /\ ~NotAZipPath(archive)
          /\ archive.kind = "zip"
          /\ temp_dir' = archive.members
          /\ temp_dir_exists' = TRUE
          /\ r_pc' = "replace"
          /\ UNCHANGED r_result
    /\ UNCHANGED <<archive, walk_order, read_order, notReplVars>>

\* The first walk: every file is read, substituted and written back.
ReplaceInFiles ==
    /\ r_pc = "replace"
    /\ temp_dir' = {[f EXCEPT !.text = replace_iitm(f.text)] : f \in temp_dir}
    /\ r_pc' = "concatenate"
    /\ UNCHANGED <<archive, temp_dir_exists, walk_order, read_order, r_result, notReplVars>>

\* The second walk: the contents are collected, directory by directory.
ConcatenateFiles ==
    /\ r_pc = "concatenate"
    /\ \E order \in WalkOrders(temp_dir) :
          /\ walk_order' = order
          /\ read_order' = WalkSorted(temp_dir, order)
    /\ r_pc' = "hash"
    /\ UNCHANGED <<archive, temp_dir, temp_dir_exists, r_result, notReplVars>>

\* The digest, the explanation the model is asked for (its failure is
\* swallowed), the success envelope, and the finally clause.
HashAndReturn ==
    /\ r_pc = "hash"
    /\ r_result' = [status |-> "success", answer |-> Sha256Hex(JoinTexts(read_order))]
    /\ temp_dir' = {}
    /\ temp_dir_exists' = FALSE
    /\ r_pc' = "done"
    /\ UNCHANGED <<archive, walk_order, read_order, notReplVars>>

ReplNext == ExtractArchive \/ ReplaceInFiles \/ ConcatenateFiles \/ HashAndReturn

ReplSpecInit == ReplInit /\ RouterIdle /\ DateIdle /\ SqlIdle /\ MainIdle /\ JsonIdle /\ ImgIdle /\ SheetsIdle /\ ExcelIdle /\ ZipIdle /\ CliIdle /\ UnicodeIdle

ReplSpec == ReplSpecInit /\ [][ReplNext]_vars

\* ---- C12 ----

\* The files of the archive after the substitution.
SubstitutedMembers == {[f EXCEPT !.text = replace_iitm(f.text)] : f \in archive.members}

ReplSucceeded == r_pc = "done" /\ r_result.status = "success"

\* C12: the hashed text is the substituted contents of all the extracted
\* files, taken in ascending order of file name, and so the answer is the
\* one answer of the archive, whatever the order in which the file system
\* lists the entries of a directory.
C12_HashOfSortedFiles ==
    ReplSucceeded =>
        /\ {read_order[i] : i \in 1..Len(read_order)} = SubstitutedMembers
        /\ Len(read_order) = Cardinality(SubstitutedMembers)
        /\ \A i, j \in 1..Len(read_order) :
              i < j => ~StrLess(read_order[j].name, read_order[i].name)
        /\ \A order \in WalkOrders(SubstitutedMembers) :
              r_result.answer = Sha256Hex(JoinTexts(WalkSorted(SubstitutedMembers, order)))

(***************************************************************************)
(* _process_image_compression: the choice among the four outputs.          *)
(***************************************************************************)

compression_methods ==
    <<"Dithered 2-Color Palette", "Black and White", "Minimal PNG", "Tiny Resize">>

\* comp['size'] < 1500
size_threshold == 1500

\* comp['size'] <= 1500 and comp['size'] > 0
UnderThresholdOrAt(size) == size <= size_threshold /\ size > 0

\* comp['size'] < 1500 and comp['size'] > 0
UnderThreshold(size) == size < size_threshold /\ size > 0

\* [comp for comp in s if ...]
RECURSIVE FilterValid(_)
FilterValid(s) ==
    IF Len(s) = 0 THEN << >>
    ELSE (IF UnderThreshold(s[1].size) THEN <<s[1]>> ELSE << >>) \o FilterValid(Tail(s))

\* min(s, key=lambda x: x['size']): the first of the smallest
RECURSIVE MinBySize(_)
MinBySize(s) ==
    IF Len(s) = 1 THEN s[1]
    ELSE LET rest == MinBySize(Tail(s))
         IN  IF s[1].size <= rest.size THEN s[1] ELSE rest

\* ---- inputs ----

\* The sizes an output is given: none, under, just under, at and over the
\* threshold.
OutputSizes == {0, 900, 1499, 1500, 2000}

\* ---- the handler ----

ImgInit ==
    /\ i_pc = "start"
    /\ output_sizes \in [1..4 -> OutputSizes]
    /\ compression_strategies = << >>
    /\ valid_compressions = << >>
    /\ i_result = NoResult

\* The four strategies, each appended with its method, its image and its size.
RunStrategies ==
    /\ i_pc = "start"
    /\ compression_strategies' =
          [k \in 1..4 |-> [method |-> compression_methods[k],
                           image |-> "<base64 of " \o compression_methods[k] \o ">",
                           size |-> output_sizes[k]]]
    /\ i_pc' = "filter"
    /\ UNCHANGED <<output_sizes, valid_compressions, i_result, notImgVars>>

\* valid_compressions, and the smallest output when it is empty
FilterCompressions ==
    /\ i_pc = "filter"
    /\ valid_compressions' =
          IF FilterValid(compression_strategies) # << >>
          THEN FilterValid(compression_strategies)
          ELSE <<MinBySize(compression_strategies)>>
    /\ i_pc' = "select"
    /\ UNCHANGED <<output_sizes, compression_strategies, i_result, notImgVars>>

\* best_compression = valid_compressions[0], and the success envelope
SelectBest ==
    /\ i_pc = "select"
    /\ LET best_compression == valid_compressions[1]
       IN  i_result' = [status |-> "success",
                        compressed_size |-> best_compression.size,
                        compression_method |-> best_compression.method,
                        compressed_image |-> best_compression.image]
    /\ i_pc' = "done"
    /\ UNCHANGED <<output_sizes, compression_strategies, valid_compressions, notImgVars>>

ImgNext == RunStrategies \/ FilterCompressions \/ SelectBest

ImgSpecInit == ImgInit /\ RouterIdle /\ DateIdle /\ SqlIdle /\ MainIdle /\ JsonIdle /\ ReplIdle /\ SheetsIdle /\ ExcelIdle /\ ZipIdle /\ CliIdle /\ UnicodeIdle

ImgSpec == ImgSpecInit /\ [][ImgNext]_vars

\* ---- C13 ----

\* The strategies whose output is under the threshold.
StrategiesUnder == {k \in 1..4 : output_sizes[k] > 0 /\ output_sizes[k] < 1500}

RECURSIVE IndexFrom(_, _, _)
IndexFrom(q, c, i) ==
    IF i > Len(q) THEN 0
    ELSE IF CharAt(q, i) = c THEN i
    ELSE IndexFrom(q, c, i + 1)

\* re.search(r'=([^)]+\))', q).group(1), looking for the '=' from i on:
\* what follows the first '=' that has a character other than ')' and,
\* somewhere after it, a ')' behind it, up to the first ')'; "" when
\* nothing matches.
RECURSIVE FormulaFrom(_, _)
FormulaFrom(q, i) ==
    LET e == IndexFrom(q, "=", i)
        close == IndexFrom(q, ")", e + 1)
    IN  IF e = 0 \/ close = 0 THEN ""
        ELSE IF close > e + 1 THEN SubSeq(q, e + 1, close)
        ELSE FormulaFrom(q, e + 1)

\* The end of the run of digits that starts at i.
RECURSIVE DigitsEnd(_, _)
DigitsEnd(s, i) ==
    IF i < Len(s) /\ IsDigit(CharAt(s, i + 1)) THEN DigitsEnd(s, i + 1) ELSE i

\* re.findall(r'\d+', s), from i on
RECURSIVE FindNumbersFrom(_, _)
FindNumbersFrom(s, i) ==
    IF i > Len(s) THEN << >>
    ELSE IF IsDigit(CharAt(s, i))
         THEN <<SubSeq(s, i, DigitsEnd(s, i))>> \o FindNumbersFrom(s, DigitsEnd(s, i) + 1)
         ELSE FindNumbersFrom(s, i + 1)

\* start + (row * step) + (col * step), for row in range(rows) and col in
\* range(cols)
google_sheets_sequence(rows, cols, start, step) ==
    [r \in 1..rows |-> [c \in 1..cols |-> start + ((r - 1) * step) + ((c - 1) * step)]]

\* s[:n]
Prefix(s, n) == SubSeq(s, 1, IF n < Len(s) THEN n ELSE Len(s))

\* [row[:cols] for row in array[:rows]]
google_sheets_array_constrain(array, rows, cols) ==
    [r \in 1..Len(Prefix(array, rows)) |-> Prefix(array[r], cols)]

RECURSIVE PySum(_)
PySum(s) == IF Len(s) = 0 THEN 0 ELSE s[1] + PySum(Tail(s))

\* constrain_rows = 1 and constrain_cols = 10
constrain_rows == 1

constrain_cols == 10

\* ---- inputs ----

SequenceQuestion(rows, cols, start, step, m, n) ==
    "What is the result of =SUM(ARRAY_CONSTRAIN(SEQUENCE(" \o PyStr(rows) \o ", "
    \o PyStr(cols) \o ", " \o PyStr(start) \o ", " \o PyStr(step) \o "), "
    \o PyStr(m) \o ", " \o PyStr(n) \o ")) in Google Sheets?"

SheetsQuestions ==
    {SequenceQuestion(rows, cols, start, step, c[1], c[2]) :
        rows \in 1..MaxGrid, cols \in 1..MaxGrid, start \in {0, 15}, step \in {1, 7},
        c \in {<<1, 10>>, <<2, 2>>}}
    \cup {SequenceQuestion(100, 100, 15, 7, 1, 10),
          SequenceQuestion(5, 12, 3, 2, 1, 10),
          "What does SEQUENCE do?",
          "Is 2 = 3) or =) or not ( = 4",
          "Type =SUM(SEQUENCE(3, 2)) into a cell",
          "Type =SEQUENCE(0, 4, 1, 1) into a cell"}

\* ---- the handler ----

SheetsInit ==
    /\ g_pc = "start"
    /\ g_question \in SheetsQuestions
    /\ sequence_params = << >>
    /\ sequence_array = << >>
    /\ constrained_array = << >>
    /\ g_result = NoResult

\* The formula and the numbers in it.
ParseFormula ==
    /\ g_pc = "start"
    /\ LET full_formula == FormulaFrom(g_question, 1)
           found == FindNumbersFrom(full_formula, 1)
       IN  \/ /\ full_formula = ""
              /\ g_result' = [status |-> "error",
                              message |-> "Unable to extract Google Sheets formula"]
              /\ g_pc' = "done"
              /\ UNCHANGED sequence_params
           \/ /\ full_formula # ""
              /\ Len(found) < 4
              /\ g_result' = [status |-> "error",
                              message |-> "Insufficient parameters for SEQUENCE function",
                              debug_info |-> [extracted_params |-> found]]
              /\ g_pc' = "done"
              /\ UNCHANGED sequence_params
           \/ /\ full_formula # ""
              /\ Len(found) >= 4
              /\ sequence_params' = [k \in 1..4 |-> PyInt(found[k])]
              /\ g_pc' = "sequence"
              /\ UNCHANGED g_result
    /\ UNCHANGED <<g_question, sequence_array, constrained_array, notSheetsVars>>

\* sequence_array = google_sheets_sequence(rows, cols, start, step)
GenerateSequence ==
    /\ g_pc = "sequence"
    /\ sequence_array' = google_sheets_sequence(sequence_params[1], sequence_params[2],
                                                sequence_params[3], sequence_params[4])
    /\ g_pc' = "constrain"
    /\ UNCHANGED <<g_question, sequence_params, constrained_array, g_result, notSheetsVars>>

\* constrained_array = google_sheets_array_constrain(...)
ConstrainArray ==
    /\ g_pc = "constrain"
    /\ constrained_array' =
          google_sheets_array_constrain(sequence_array, constrain_rows, constrain_cols)
    /\ g_pc' = "sum"
    /\ UNCHANGED <<g_question, sequence_params, sequence_array, g_result, notSheetsVars>>

\* sum_result = sum(sum(row) for row in constrained_array), and the envelope
SumAndReturn ==
    /\ g_pc = "sum"
    /\ g_result' = [status |-> "success",
                    answer |-> PySum([r \in 1..Len(constrained_array) |->
                                         PySum(constrained_array[r])])]
    /\ g_pc' = "done"
    /\ UNCHANGED <<g_question, sequence_params, sequence_array, constrained_array,
                   notSheetsVars>>

SheetsNext == ParseFormula \/ GenerateSequence \/ ConstrainArray \/ SumAndReturn

SheetsSpecInit == SheetsInit /\ RouterIdle /\ DateIdle /\ SqlIdle /\ MainIdle /\ JsonIdle /\ ReplIdle /\ ImgIdle /\ ExcelIdle /\ ZipIdle /\ CliIdle /\ UnicodeIdle

SheetsSpec == SheetsSpecInit /\ [][SheetsNext]_vars

\* ---- C14 ----

\* C14: for rows and cols of 1 or more, the SEQUENCE that is generated is
\* the grid of rows by cols whose cell at row r and column c, counted from
\* 0, is start + (r * cols + c) * step; and the constrained array is the
\* block of its first m rows and first n columns.
C14_SequenceAndConstrain ==
    (g_pc \in {"constrain", "sum", "done"} /\ sequence_params # << >>
       /\ sequence_params[1] >= 1 /\ sequence_params[2] >= 1) =>
        LET rows == sequence_params[1]
            cols == sequence_params[2]
            start == sequence_params[3]
            step == sequence_params[4]
        IN  /\ Len(sequence_array) = rows
            /\ \A r \in 0..(rows - 1) :
                  /\ Len(sequence_array[r + 1]) = cols
                  /\ \A c \in 0..(cols - 1) :
                        sequence_array[r + 1][c + 1] = start + (r * cols + c) * step
            /\ g_pc \in {"sum", "done"} =>
                  /\ Len(constrained_array) = IF constrain_rows < rows THEN constrain_rows ELSE rows
                  /\ \A r \in 1..Len(constrained_array) :
                        /\ Len(constrained_array[r]) = IF constrain_cols < cols THEN constrain_cols ELSE cols
                        /\ \A c \in 1..Len(constrained_array[r]) :
                              constrained_array[r][c] = sequence_array[r][c]

\* ---- C29 ----

\* The SEQUENCE and ARRAY_CONSTRAIN arguments of the formulas asked about:
\* <<rows, cols, start, step, m, n>>.
SequenceFormulas ==
    {<<rows, cols, start, step, c[1], c[2]>> :
        rows \in 1..MaxGrid, cols \in 1..MaxGrid, start \in {0, 15}, step \in {1, 7},
        c \in {<<1, 10>>, <<2, 2>>}}
    \cup {<<100, 100, 15, 7, 1, 10>>, <<5, 12, 3, 2, 1, 10>>}

\* The sum of the first m rows and first n columns of the grid that
\* SEQUENCE(rows, cols, start, step) makes in a spreadsheet.
BlockSum(rows, cols, start, step, m, n) ==
    LET mm == IF m < rows THEN m ELSE rows
        nn == IF n < cols THEN n ELSE cols
    IN  PySum([r \in 1..mm |->
                 PySum([c \in 1..nn |-> start + ((r - 1) * cols + (c - 1)) * step])])

\* C29: for =SUM(ARRAY_CONSTRAIN(SEQUENCE(r, c, s, t), m, n)) the answer is
\* the sum of the top-left m by n block of the SEQUENCE grid, m and n being
\* the ones written in the formula; a formula with fewer than four integers
\* gets the error "Insufficient parameters for SEQUENCE function".
C29_SumOfBlock ==
    g_pc = "done" =>
        /\ \A f \in SequenceFormulas :
              g_question = SequenceQuestion(f[1], f[2], f[3], f[4], f[5], f[6]) =>
                 /\ g_result.status = "success"
                 /\ g_result.answer = BlockSum(f[1], f[2], f[3], f[4], f[5], f[6])
        /\ (FormulaFrom(g_question, 1) # ""
              /\ Len(FindNumbersFrom(FormulaFrom(g_question, 1), 1)) < 4) =>
                 /\ g_result.status = "error"
                 /\ g_result.message = "Insufficient parameters for SEQUENCE function"

(***************************************************************************)
(* _process_excel_formula                                                  *)
(***************************************************************************)

\* re.search(r'=([^)]+)\)', q).group(1): the match of the Google Sheets
\* handler without its closing parenthesis; "" when nothing matches.
ExcelFormula(q) ==
    IF FormulaFrom(q, 1) = "" THEN ""
    ELSE SubSeq(FormulaFrom(q, 1), 1, Len(FormulaFrom(q, 1)) - 1)

\* re.findall(r'\{([^}]+)\}', s), from i on
RECURSIVE FindArraysFrom(_, _)
FindArraysFrom(s, i) ==
    LET open == IndexFrom(s, "{", i)
        close == IndexFrom(s, "}", open + 1)
    IN  IF open = 0 \/ close = 0 THEN << >>
        ELSE IF close > open + 1
             THEN <<SubSeq(s, open + 1, close - 1)>> \o FindArraysFrom(s, close + 1)
             ELSE FindArraysFrom(s, open + 1)

\* s.split(',')
RECURSIVE SplitCommas(_)
SplitCommas(s) ==
    LET comma == IndexFrom(s, ",", 1)
    IN  IF comma = 0 THEN <<s>>
        ELSE <<SubSeq(s, 1, comma - 1)>> \o SplitCommas(SubSeq(s, comma + 1, Len(s)))

\* int(x) accepts x: digits, with a sign or without
IsIntLiteral(x) ==
    LET body == IF Len(x) > 0 /\ CharAt(x, 1) \in {"-", "+"} THEN SubSeq(x, 2, Len(x)) ELSE x
    IN  Len(body) > 0 /\ \A k \in 1..Len(body) : IsDigit(CharAt(body, k))

\* int(x) for such an x
PyIntSigned(x) ==
    IF CharAt(x, 1) = "-" THEN 0 - PyInt(SubSeq(x, 2, Len(x)))
    ELSE IF CharAt(x, 1) = "+" THEN PyInt(SubSeq(x, 2, Len(x)))
    ELSE PyInt(x)

\* [int(x.strip()) for x in s.split(',')]: the ValueError of the first x
\* that is no integer ("" when there is none), and the integers.
RECURSIVE IntsError(_)
IntsError(items) ==
    IF Len(items) = 0 THEN ""
    ELSE IF ~IsIntLiteral(PyStrip(items[1]))
         THEN "invalid literal for int() with base 10: '" \o PyStrip(items[1]) \o "'"
         ELSE IntsError(Tail(items))

Ints(items) == [k \in 1..Len(items) |-> PyIntSigned(PyStrip(items[k]))]

\* The key of sorted(): sort_order[i] when there is one, float('inf') when
\* not; i and j count from 1.
TakeKeyLess(order, i, j) ==
    /\ i <= Len(order)
    /\ (j > Len(order) \/ order[i] < order[j])

\* indexed_array sorted by that key: the indices of the array, those of
\* equal keys in their own order.
RECURSIVE InsertByKey(_, _, _)
InsertByKey(order, s, i) ==
    IF Len(s) = 0 THEN <<i>>
    ELSE IF TakeKeyLess(order, i, s[1]) THEN <<i>> \o s
    ELSE <<s[1]>> \o InsertByKey(order, Tail(s), i)

RECURSIVE SortedIndices(_, _)
SortedIndices(order, n) ==
    IF n = 0 THEN << >> ELSE InsertByKey(order, SortedIndices(order, n - 1), n)

\* excel_take(array, sort_order, take_rows, take_cols)
excel_take(array, order, take_rows, take_cols) ==
    LET sorted_array == SortedIndices(order, Len(array))
        taken_array == Prefix(sorted_array, take_rows)
        values == [k \in 1..Len(taken_array) |-> array[taken_array[k]]]
    IN  Prefix(values, take_cols)

\* excel_take(data_array, sort_order, 1, 6)
take_rows == 1

take_cols == 6

\* ---- inputs ----

RECURSIVE JoinInts(_)
JoinInts(s) ==
    IF Len(s) = 0 THEN ""
    ELSE PyStr(s[1]) \o (IF Len(s) = 1 THEN "" ELSE ",") \o JoinInts(Tail(s))

SortByQuestion(data, keys) ==
    "=SUM(TAKE(SORTBY({" \o JoinInts(data) \o "}, {" \o JoinInts(keys) \o "}), 1, 6))"

ExcelQuestions ==
    {SortByQuestion(data, keys) :
        data \in UNION {[1..n -> {1, 4}] : n \in 1..MaxCells},
        keys \in UNION {[1..n -> {1, 2}] : n \in 1..MaxCells}}
    \cup {SortByQuestion(<<7, 6, 5, 4, 3, 2, 1>>, <<1, 2, 3, 4, 5, 6, 7>>),
          "What does SORTBY do?",
          "Use =SUM(A1:A6) in Excel",
          "=SUM(TAKE(SORTBY({1, 2}, {x, 1}), 1, 6))",
          "=SUM(TAKE(SORTBY({ -5, 3 }, {2,1}), 1, 6))"}

\* ---- the handler ----

ExcelInit ==
    /\ e_pc = "start"
    /\ e_question \in ExcelQuestions
    /\ data_array = << >>
    /\ sort_order = << >>
    /\ taken_values = << >>
    /\ e_result = NoResult

\* The formula, its two arrays and their integers.
ExtractArrays ==
    /\ e_pc = "start"
    /\ LET full_formula == ExcelFormula(e_question)
           array_matches == FindArraysFrom(full_formula, 1)
       IN  \/ /\ full_formula = ""
              /\ e_result' = [status |-> "error",
                              message |-> "No Excel formula found in the question"]
              /\ e_pc' = "done"
              /\ UNCHANGED <<data_array, sort_order>>
           \/ /\ full_formula # ""
              /\ Len(array_matches) < 2
              /\ e_result' = [status |-> "error",
                              message |-> "Unable to extract arrays from the formula",
                              debug_info |-> [full_formula |-> full_formula,
                                              array_matches |-> array_matches]]
              /\ e_pc' = "done"
              /\ UNCHANGED <<data_array, sort_order>>
           \/ /\ full_formula # ""
              /\ Len(array_matches) >= 2
              /\ LET first == SplitCommas(array_matches[1])
                     second == SplitCommas(array_matches[2])
                     error == IF IntsError(first) # "" THEN IntsError(first)
                              ELSE IntsError(second)
                 IN  \/ /\ error # ""
                        /\ e_result' = excel_formula_except(error)
                        /\ e_pc' = "done"
                        /\ UNCHANGED <<data_array, sort_order>>
                     \/ /\ error = ""
                        /\ data_array' = Ints(first)
                        /\ sort_order' = Ints(second)
                        /\ e_pc' = "take"
                        /\ UNCHANGED e_result
    /\ UNCHANGED <<e_question, taken_values, notExcelVars>>

\* excel_take(data_array, sort_order, 1, 6)
TakeSorted ==
    /\ e_pc = "take"
    /\ taken_values' = excel_take(data_array, sort_order, take_rows, take_cols)
    /\ e_pc' = "sum"
    /\ UNCHANGED <<e_question, data_array, sort_order, e_result, notExcelVars>>

\* sum_result and the success envelope
ReturnSum ==
    /\ e_pc = "sum"
    /\ e_result' = [status |-> "success", result |-> PySum(taken_values)]
    /\ e_pc' = "done"
    /\ UNCHANGED <<e_question, data_array, sort_order, taken_values, notExcelVars>>

ExcelNext == ExtractArrays \/ TakeSorted \/ ReturnSum

ExcelSpecInit == ExcelInit /\ RouterIdle /\ DateIdle /\ SqlIdle /\ MainIdle /\ JsonIdle /\ ReplIdle /\ ImgIdle /\ SheetsIdle /\ ZipIdle /\ CliIdle /\ UnicodeIdle

ExcelSpec == ExcelSpecInit /\ [][ExcelNext]_vars

\* ---- C15 ----

\* Cell i of data comes before cell j when data is reordered by ascending
\* key, cells of equal keys keeping their order.
ComesBefore(i, j) == sort_order[i] < sort_order[j] \/ (sort_order[i] = sort_order[j] /\ i < j)

\* The cells that are among the first six of the reordered data.
FirstSixCells ==
    {i \in 1..Len(data_array) :
        Cardinality({j \in 1..Len(data_array) : ComesBefore(j, i)}) < 6}

RECURSIVE SumOfCells(_)
SumOfCells(cells) ==
    IF cells = {} THEN 0
    ELSE LET i == CHOOSE c \in cells : TRUE
         IN  data_array[i] + SumOfCells(cells \ {i})

\* C15: for SUM(TAKE(SORTBY({data}, {keys}), 1, 6)) over two arrays of
\* integers of one length, the result is the sum of the first six cells
\* (of all of them when they are fewer) of data reordered by ascending key,
\* cells of equal keys keeping their order.
C15_SumOfFirstSix ==
    (e_pc = "done" /\ e_result.status = "success" /\ Len(data_array) = Len(sort_order)) =>
        e_result.result = SumOfCells(FirstSixCells)

(***************************************************************************)
(* The envelope of route_question                                          *)
(***************************************************************************)

\* C16: every envelope route_question returns has a status that is
\* "success" or "error", and every envelope of status "success" has a field
\* named "answer", whichever handler made it.
C16_AnswerField ==
    pc = "done" =>
        /\ result.status \in {"success", "error"}
        /\ (result.status = "success" => "answer" \in DOMAIN result)

\* C18: route_question is total. Whatever the question, the file path and
\* the model do, a call that is over has returned an envelope whose status is
\* "success" or "error", the return is the last thing that happened, and no
\* exception went on to the caller; nothing is returned before that.
C18_Total ==
    /\ pc = "done" =>
          /\ result.status \in {"success", "error"}
          /\ log[Len(log)] = RouteReturn
          /\ hpc = "raised" => "message" \in DOMAIN result
    /\ pc # "done" => result = NoResult

\* A handler let an exception escape, and route_question returned an error
\* envelope for it.
C18_Witness ==
    /\ pc = "done"
    /\ hpc = "raised"
    /\ \E i \in 1..Len(log) : log[i].ev = "handler" /\ log[i].kind = "raise"
    /\ result.status = "error"

\* C19: the labels the classification prompt offers and the labels the
\* dispatch chain tests for are the same set. Every label of the prompt has a
\* branch: a reply that is such a label starts a handler. Every label of a
\* branch is in the prompt: a handler is only ever started on a
\* classification in which a label of the prompt occurs.
C19_SameLabels ==
    /\ (Dispatched /\ reply.text \in PromptLabels) => Len(HandlersStarted) = 1
    /\ pc = "handler" =>
          /\ \E l \in PromptLabels : PyIn(l, classification)
          /\ \A l \in RecognisedLabels : PyIn(l, classification) => l \in PromptLabels

\* The resources created and not removed since, by the log.
ResourcesLeft ==
    {w \in {"tempdir", "tempdb", "connection"} :
        LET made == {i \in 1..Len(log) : log[i] = Resource("create", w)}
            gone == {i \in 1..Len(log) : log[i] = Resource("remove", w)}
        IN  \E i \in made : \A j \in gone : j < i}

\* C20: when a handler has returned, every temporary directory and temporary
\* database it created has been removed and every database connection it
\* opened has been closed, on every path out of it: the success, the early
\* error return, and an exception at any step after the creation.
C20_TemporariesReleased ==
    pc = "done" => (temps = {} /\ ResourcesLeft = {})

(***************************************************************************)
(* _process_docker_image_push: the order of the commands                   *)
(***************************************************************************)

\* The subprocess runs of the call so far, in order.
CommandsRun ==
    SelectSeq(log, LAMBDA e : e.ev = "call" /\ e.kind = "subprocess")

InDocker == handler = "_process_docker_image_push"

PyStartsWith(s, prefix) ==
    /\ Len(prefix) <= Len(s)
    /\ SubSeq(s, 1, Len(prefix)) = prefix

\* The member's own file name: what follows the last '/' of its path.
RECURSIVE OwnName(_)
OwnName(path) ==
    IF IndexFrom(path, "/", 1) = 0 THEN path
    ELSE OwnName(SubSeq(path, IndexFrom(path, "/", 1) + 1, Len(path)))

\* if not file_name.startswith('.') and not file_name.endswith('/')
MemberRead(file_name) ==
    ~PyStartsWith(file_name, ".") /\ ~PyEndsWith(file_name, "/")

\* ---- inputs ----

MemberPaths == {"a.txt", ".hidden", "sub/", "sub/b.csv", "sub/.env", ".git/config"}

\* A member: its path in the archive, and whether its bytes decode as UTF-8
\* (a directory entry has none).
ZipMembers ==
    {[name |-> n, utf8 |-> u] : n \in MemberPaths, u \in BOOLEAN} \
        {[name |-> "sub/", utf8 |-> FALSE]}

\* An archive: a file that is not a ZIP, or the members of one, no path twice.
ZipArchives ==
    {NoArchive}
    \cup {[ok |-> TRUE, members |-> m] :
            m \in {q \in UNION {[1..n -> ZipMembers] : n \in 0..MaxEntries} :
                      \A i \in DOMAIN q : \A j \in DOMAIN q : i # j => q[i].name # q[j].name}}

\* ---- the function ----

ZipInit ==
    /\ z_pc = "start"
    /\ zip_file \in ZipArchives
    /\ member_index = 0
    /\ extracted_files = << >>
    /\ z_raised = NoException

\* zipfile.ZipFile(zip_path) and extractall: the archive opens, or the
\* except clause raises 400.
OpenArchive ==
    /\ z_pc = "start"
    /\ \/ /\ ~zip_file.ok
          /\ z_raised' = HTTPException(400, "Invalid zip file: File is not a zip file")
          /\ z_pc' = "done"
          /\ UNCHANGED member_index
       \/ /\ zip_file.ok
          /\ member_index' = 1
          /\ z_pc' = "loop"
          /\ UNCHANGED z_raised
    /\ UNCHANGED <<zip_file, extracted_files, notZipVars>>

\* One turn of: for file_name in zip_ref.namelist()
ReadMember ==
    /\ z_pc = "loop"
    /\ member_index <= Len(zip_file.members)
    /\ LET m == zip_file.members[member_index]
       IN  extracted_files' =
               IF MemberRead(m.name) /\ m.utf8
               THEN Append(extracted_files, <<m.name, "text of " \o m.name>>)
               ELSE extracted_files
    /\ member_index' = member_index + 1
    /\ UNCHANGED <<z_pc, zip_file, z_raised, notZipVars>>

\* return extracted_files
ReturnExtracted ==
    /\ z_pc = "loop"
    /\ member_index > Len(zip_file.members)
    /\ z_pc' = "done"
    /\ UNCHANGED <<zip_file, member_index, extracted_files, z_raised, notZipVars>>

ZipNext == OpenArchive \/ ReadMember \/ ReturnExtracted

ZipSpecInit == ZipInit /\ RouterIdle /\ DateIdle /\ SqlIdle /\ MainIdle /\ JsonIdle /\ ReplIdle /\ ImgIdle /\ SheetsIdle /\ ExcelIdle /\ CliIdle /\ UnicodeIdle

ZipSpec == ZipSpecInit /\ [][ZipNext]_vars

\* ---- C24 ----

\* The members that are regular files, not hidden and valid UTF-8.
ReadableMembers ==
    {zip_file.members[i].name : i \in
        {k \in 1..Len(zip_file.members) :
            /\ ~PyEndsWith(zip_file.members[k].name, "/")
            /\ ~PyStartsWith(OwnName(zip_file.members[k].name), ".")
            /\ zip_file.members[k].utf8}}

\* C24: the context extract_files_from_zip returns holds exactly the members
\* that are regular files, not hidden and valid UTF-8: no directory entry, no
\* member whose own file name starts with '.' at any depth, and a member that
\* is not valid UTF-8 is left out without failing the request.
C24_ReadableMembersOnly ==
    (z_pc = "done" /\ zip_file.ok) =>
        /\ z_raised = NoException
        /\ {extracted_files[i][1] : i \in 1..Len(extracted_files)} = ReadableMembers

(***************************************************************************)
(* _process_cli_command_simulation                                         *)
(***************************************************************************)

\* re.search(r'type\s+(.+?)\s+and', q, re.IGNORECASE)

\* q[a..b] is white space
AllWhitespace(q, a, b) == \A k \in a..b : CharAt(q, k) \in PyWhitespace

\* word stands at position i of q, in any case
WordAt(q, word, i) ==
    /\ i >= 1
    /\ i + Len(word) - 1 <= Len(q)
    /\ PyLower(SubSeq(q, i, i + Len(word) - 1)) = word

\* Where a group that starts at g may end: it has no newline, and white
\* space and then "and" follow it.
GroupEnds(q, g) ==
    {e \in g..Len(q) :
        /\ \A k \in g..e : CharAt(q, k) # "\n"
        /\ \E k \in (e + 1)..Len(q) : AllWhitespace(q, e + 1, k) /\ WordAt(q, "and", k + 1)}

\* Where the group may start after a "type" at i: behind white space.
GroupStarts(q, i) ==
    {g \in (i + 5)..Len(q) : AllWhitespace(q, i + 4, g - 1) /\ GroupEnds(q, g) # {}}

MatchStarts(q) == {i \in 1..Len(q) : WordAt(q, "type", i) /\ GroupStarts(q, i) # {}}

\* command_match: whether the pattern matches, and group(1) of the leftmost
\* match, the white space before it taken greedily and the group lazily.
command_match(q) ==
    IF MatchStarts(q) = {} THEN [found |-> FALSE, group |-> ""]
    ELSE LET i == CHOOSE x \in MatchStarts(q) : \A y \in MatchStarts(q) : x <= y
             g == CHOOSE x \in GroupStarts(q, i) : \A y \in GroupStarts(q, i) : y <= x
             e == CHOOSE x \in GroupEnds(q, g) : \A y \in GroupEnds(q, g) : x <= y
         IN  [found |-> TRUE, group |-> SubSeq(q, g, e)]

\* The simulated output of 'code -s'
settings_sync_output == "Settings Sync is turned on ... Sync will continue running in the background"

\* if 'code -s' in command.lower(): ... else: ...
SimulatedOutput(c) ==
    IF PyIn("code -s", PyLower(c))
    THEN [status |-> "success", output |-> settings_sync_output]
    ELSE [status |-> "error", message |-> "Unrecognized command: " \o c]

\* ---- inputs ----

CliCommands ==
    {"code -s", "CODE -S", "code -s --verbose", "code --version", "code", "ls -la",
     "git status", "docker ps"}

CliQuestions ==
    {t \o Spaces(n) \o c \o Spaces(n) \o "and press Enter" :
        t \in {"type", "Type", "In the terminal, TYPE"}, n \in 1..MaxGap, c \in CliCommands}
    \cup {"What does code -s print?", "type   and", "Type code -s, then press Enter"}

\* ---- the handler ----

CliInit ==
    /\ c_pc = "start"
    /\ c_question \in CliQuestions
    /\ command = ""
    /\ simulated_output = NoResult
    /\ c_result = NoResult

ExtractCommand ==
    /\ c_pc = "start"
    /\ \/ /\ ~command_match(c_question).found
          /\ c_result' = [status |-> "error",
                          message |-> "Unable to extract CLI command from the question"]
          /\ c_pc' = "done"
          /\ UNCHANGED command
       \/ /\ command_match(c_question).found
          /\ command' = PyStrip(command_match(c_question).group)
          /\ c_pc' = "simulate"
          /\ UNCHANGED c_result
    /\ UNCHANGED <<c_question, simulated_output, notCliVars>>

SimulateCommand ==
    /\ c_pc = "simulate"
    /\ simulated_output' = SimulatedOutput(command)
    /\ c_pc' = "return"
    /\ UNCHANGED <<c_question, command, c_result, notCliVars>>

\* The return statement reads simulated_output['output']: a KeyError when
\* the dictionary has no such key, which the except clause turns into an
\* envelope.
ReturnOutput ==
    /\ c_pc = "return"
    /\ c_result' =
          IF "output" \in DOMAIN simulated_output
          THEN [status |-> "success", command |-> command,
                answer |-> simulated_output.output]
          ELSE cli_command_simulation_except("'output'")
    /\ c_pc' = "done"
    /\ UNCHANGED <<c_question, command, simulated_output, notCliVars>>

CliNext == ExtractCommand \/ SimulateCommand \/ ReturnOutput

CliSpecInit == CliInit /\ RouterIdle /\ DateIdle /\ SqlIdle /\ MainIdle /\ JsonIdle /\ ReplIdle /\ ImgIdle /\ SheetsIdle /\ ExcelIdle /\ ZipIdle /\ UnicodeIdle

CliSpec == CliSpecInit /\ [][CliNext]_vars

\* ---- C25 ----

\* C25: for a question from which a command is extracted that is not the
\* recognised 'code -s', the handler returns an error envelope whose message is
\* "Unrecognized command: <command>"; for a command that contains 'code -s'
\* it returns status "success" with the fixed simulated output as answer.
C25_UnrecognizedCommand ==
    (c_pc = "done" /\ command_match(c_question).found) =>
        IF PyIn("code -s", PyLower(command))
        THEN /\ c_result.status = "success"
             /\ c_result.answer = settings_sync_output
        ELSE /\ c_result.status = "error"
             /\ c_result.message = "Unrecognized command: " \o command

(***************************************************************************)
(* _process_unicode_data                                                   *)
(***************************************************************************)

\* target_symbols = ['†', 'Š', '…'], each written as its code point.
target_symbols == {"U+2020", "U+0160", "U+2026"}

\* A value of the value column: a number of units and halves (1 unit and 1
\* half is 1.5), or a text that is no number.
Number(units, half) == [kind |-> "number", units |-> units, half |-> half]

NoNumber == [kind |-> "text", units |-> 0, half |-> 0]

Row(symbol, value) == [symbol |-> symbol, value |-> value]

\* A member of the archive: its name, the encoding and the separator it was
\* written with, the names of its header line and its rows.
Member(filename, encoding, sep, columns, rows) ==
    [filename |-> filename, encoding |-> encoding, sep |-> sep,
     columns |-> columns, rows |-> rows]

\* if filename.endswith('.csv') / elif filename.endswith('.txt')
IsCsv(filename) == PyEndsWith(filename, ".csv")

IsTxt(filename) == PyEndsWith(filename, ".txt")

\* encoding = 'cp1252' if 'data1.csv' in filename else 'utf-8'; 'utf-16'
\* for a .txt
handler_encoding(filename) ==
    IF IsCsv(filename)
    THEN IF PyIn("data1.csv", filename) THEN "cp1252" ELSE "utf-8"
    ELSE "utf-16"

\* pd.read_csv(f, encoding=encoding) for a .csv, with sep='\t' for a .txt
handler_sep(filename) == IF IsCsv(filename) THEN "," ELSE "\t"

\* Every character of the member is ASCII.
AsciiOnly(member) ==
    \A i \in 1..Len(member.rows) : member.rows[i].symbol \notin target_symbols

\* What the bytes of a UTF-8 symbol are as CP-1252 text: an ASCII letter
\* is itself, any other symbol becomes a string of two or three characters.
AsCp1252(symbol) ==
    IF symbol \in target_symbols THEN "cp1252(" \o symbol \o ")" ELSE symbol

\* A table that was read, and a reading that raised.
Table(columns, rows) == [raised |-> FALSE, columns |-> columns, rows |-> rows]

Raised == [raised |-> TRUE, columns |-> {}, rows |-> << >>]

\* pd.read_csv of the member with the encoding and the separator that the
\* handler picks from its name: the tables it can return, Raised among them
\* when it can raise.
read_csv(member) ==
    LET encoding == handler_encoding(member.filename)
        columns == IF member.sep = handler_sep(member.filename) THEN member.columns
                   ELSE {"<the header line>"}
    IN  IF member.encoding = encoding \/ (AsciiOnly(member) /\ "utf-16" \notin {member.encoding, encoding})
        THEN {Table(columns, member.rows)}
        ELSE IF member.encoding = "cp1252" /\ encoding = "utf-8"
        THEN {Raised}
        ELSE IF member.encoding = "utf-8" /\ encoding = "cp1252"
        THEN {Table(columns, [i \in 1..Len(member.rows) |->
                                 Row(AsCp1252(member.rows[i].symbol), member.rows[i].value)])}
        ELSE {Raised, Table({"<garbage>"}, << >>)}

\* df[df['symbol'].isin(target_symbols)]
IsTargetRow(r) == r.symbol \in target_symbols

Filtered(rows) == SelectSeq(rows, IsTargetRow)

\* The sum of the values of the rows, in halves.
RECURSIVE SumInHalves(_)
SumInHalves(rows) ==
    IF Len(rows) = 0 THEN 0
    ELSE 2 * rows[1].value.units + rows[1].value.half + SumInHalves(Tail(rows))

\* The value column is a column of numbers.
NumericColumn(rows) == \A i \in 1..Len(rows) : rows[i].value.kind = "number"

\* file_total = filtered_df['value'].sum(), then
\* int(file_total) if hasattr(file_total, 'item') else file_total, then
\* total_sum += file_total: the sum of a column of numbers is a numpy number,
\* which int() cuts to its whole part; the sum of a column of texts is 0 for
\* no rows and a text for some rows, and adding a text to total_sum raises.
file_total(df) ==
    IF NumericColumn(df.rows) THEN [raised |-> FALSE, total |-> SumInHalves(Filtered(df.rows)) \div 2]
    ELSE IF Len(Filtered(df.rows)) = 0 THEN [raised |-> FALSE, total |-> 0]
    ELSE [raised |-> TRUE, total |-> 0]

\* ---- inputs ----

UnicodeMembers ==
    {Member("data1.csv", "cp1252", ",", {"symbol", "value"},
            <<Row("U+2020", Number(1, 0)), Row("A", Number(5, 0)), Row("U+0160", Number(2, 0))>>),
     Member("data2.csv", "utf-8", ",", {"symbol", "value"},
            <<Row("U+2026", Number(4, 0)), Row("U+2020", Number(1, 0))>>),
     Member("data3.txt", "utf-16", "\t", {"symbol", "value"},
            <<Row("U+0160", Number(2, 0)), Row("B", Number(7, 0))>>),
     Member("extra.csv", "cp1252", ",", {"symbol", "value"},
            <<Row("U+2020", Number(1, 0))>>),
     Member("sub/data1.csv", "utf-8", ",", {"symbol", "value"},
            <<Row("U+2020", Number(1, 0)), Row("A", Number(3, 0))>>),
     Member("data4.csv", "utf-8", ",", {"symbol", "amount"},
            <<Row("U+2020", Number(1, 0))>>),
     Member("notes.md", "utf-8", ",", {"symbol", "value"},
            <<Row("U+2020", Number(1, 0))>>),
     Member("DATA5.CSV", "utf-8", ",", {"symbol", "value"},
            <<Row("U+2020", Number(1, 0))>>),
     Member("data6.csv", "utf-8", ",", {"symbol", "value"},
            <<Row("U+2020", Number(1, 1)), Row("A", Number(2, 0))>>),
     Member("data7.csv", "utf-8", ",", {"symbol", "value"},
            <<Row("U+2020", NoNumber), Row("U+2026", Number(2, 0))>>),
     Member("data8.txt", "utf-8", "\t", {"symbol", "value"},
            <<Row("U+0160", Number(2, 0))>>),
     Member("data9.txt", "utf-16", ",", {"symbol", "value"},
            <<Row("U+0160", Number(2, 0))>>)}

RECURSIVE MemberLists(_)
MemberLists(n) ==
    IF n = 0 THEN {<< >>}
    ELSE MemberLists(n - 1)
         \cup {Append(s, member) : s \in {t \in MemberLists(n - 1) : Len(t) = n - 1},
                                   member \in UnicodeMembers}

\* A file that is no archive, and the archives of up to MaxFiles members.
UnicodeArchives ==
    {[ok |-> FALSE, members |-> << >>]}
    \cup {[ok |-> TRUE, members |-> s] : s \in MemberLists(MaxFiles)}

UnicodePaths == {None, "", "/tmp/data.zip", "/tmp/DATA.ZIP", "/tmp/data.csv"}

\* ---- the handler ----

UnicodeInit ==
    /\ u_pc = "start"
    /\ u_file_path \in UnicodePaths
    /\ zip_ref \in UnicodeArchives
    /\ name_index = 0
    /\ total_sum = 0
    /\ details = << >>
    /\ u_result = NoResult

\* The guard on file_path, and zipfile.ZipFile(file_path, 'r')
OpenZip ==
    /\ u_pc = "start"
    /\ \/ /\ NotAZipPath([path |-> u_file_path])
          /\ u_result' = [status |-> "error", message |-> "Invalid or missing ZIP file"]
          /\ u_pc' = "done"
       \/ /\ ~NotAZipPath([path |-> u_file_path])
          /\ ~zip_ref.ok
          /\ u_result' = [status |-> "error", message |-> "File is not a zip file"]
          /\ u_pc' = "done"
       \/ /\ ~NotAZipPath([path |-> u_file_path])
          /\ zip_ref.ok
          /\ u_pc' = "loop"
          /\ UNCHANGED u_result
    /\ UNCHANGED <<u_file_path, zip_ref, name_index, total_sum, details, notUnicodeVars>>

\* One turn of for filename in zip_ref.namelist()
ReadOneMember ==
    /\ u_pc = "loop"
    /\ name_index < Len(zip_ref.members)
    /\ name_index' = name_index + 1
    /\ LET member == zip_ref.members[name_index + 1]
           filename == member.filename
       IN  \/ /\ ~IsCsv(filename)
              /\ ~IsTxt(filename)
              /\ UNCHANGED <<total_sum, details>>
           \/ /\ IsCsv(filename) \/ IsTxt(filename)
              /\ \E df \in read_csv(member) :
                    \/ /\ df.raised
                       /\ details' = Append(details, [filename |-> filename, error |-> TRUE])
                       /\ UNCHANGED total_sum
                    \/ /\ ~df.raised
                       /\ ~({"symbol", "value"} \subseteq df.columns)
                       /\ UNCHANGED <<total_sum, details>>
                    \/ /\ ~df.raised
                       /\ {"symbol", "value"} \subseteq df.columns
                       /\ file_total(df).raised
                       /\ details' = Append(details, [filename |-> filename, error |-> TRUE])
                       /\ UNCHANGED total_sum
                    \/ /\ ~df.raised
                       /\ {"symbol", "value"} \subseteq df.columns
                       /\ ~file_total(df).raised
                       /\ total_sum' = total_sum + file_total(df).total
                       /\ details' = Append(details, [filename |-> filename, error |-> FALSE])
    /\ UNCHANGED <<u_pc, u_file_path, zip_ref, u_result, notUnicodeVars>>

\* return {"status": "success", "answer": str(total_sum)}
ReturnTotal ==
    /\ u_pc = "loop"
    /\ name_index = Len(zip_ref.members)
    /\ u_result' = [status |-> "success", answer |-> PyStr(total_sum)]
    /\ u_pc' = "done"
    /\ UNCHANGED <<u_file_path, zip_ref, name_index, total_sum, details, notUnicodeVars>>

UnicodeNext == OpenZip \/ ReadOneMember \/ ReturnTotal

UnicodeSpecInit == UnicodeInit /\ RouterIdle /\ DateIdle /\ SqlIdle /\ MainIdle /\ JsonIdle /\ ReplIdle /\ ImgIdle /\ SheetsIdle /\ ExcelIdle /\ ZipIdle /\ CliIdle

UnicodeSpec == UnicodeSpecInit /\ [][UnicodeNext]_vars

\* ---- C30 ----

\* The member is a .csv or .txt that can be read, with a symbol and a value
\* column of numbers.
Summable(member) ==
    /\ IsCsv(member.filename) \/ IsTxt(member.filename)
    /\ \E df \in read_csv(member) :
          ~df.raised /\ {"symbol", "value"} \subseteq df.columns /\ NumericColumn(df.rows)

\* The sum of the values of the rows of the member whose symbol is a target
\* symbol, in halves; 0 for a member that is not summable.
MemberSumInHalves(member) ==
    IF Summable(member)
    THEN SumInHalves(Filtered((CHOOSE df \in read_csv(member) : ~df.raised).rows))
    ELSE 0

RECURSIVE ArchiveSumInHalves(_)
ArchiveSumInHalves(members) ==
    IF Len(members) = 0 THEN 0
    ELSE MemberSumInHalves(members[1]) + ArchiveSumInHalves(Tail(members))

\* A number of halves as Python writes the number.
HalvesText(h) == IF h % 2 = 0 THEN PyStr(h \div 2) ELSE PyStr(h \div 2) \o ".5"

\* C30: the answer is the sum, over the .csv and .txt members that can be
\* read and have a symbol and a value column, of the values of the rows with
\* a target symbol; a member that fails or lacks the columns adds 0 and
\* changes the sum of no other member, and the envelope is a success even
\* when every member fails.
C30_SumOverMembers ==
    (u_pc = "done" /\ ~NotAZipPath([path |-> u_file_path]) /\ zip_ref.ok) =>
        /\ u_result.status = "success"
        /\ u_result.answer = HalvesText(ArchiveSumInHalves(zip_ref.members))

(***************************************************************************)
(* The handlers that need a file                                           *)
(***************************************************************************)

ZipHandlers ==
    {"_process_zip_csv_extract", "_process_unicode_data", "_process_file_comparison",
     "_process_file_replacement_sha256", "_process_file_attributes_listing"}

ExistingFileHandlers == {"_process_npx_prettier_sha256", "_process_image_compression"}

\* The file given to the handler is missing or not one it can use.
UnsuitableFile ==
    \/ /\ handler \in ZipHandlers \cup ExistingFileHandlers \cup {"_process_multi_cursor_json"}
       /\ file.path \in {None, ""}
    \/ /\ handler \in ZipHandlers
       /\ file.path \notin {None, ""}
       /\ ~PyEndsWith(PyLower(file.path), ".zip")
    \/ /\ handler \in ExistingFileHandlers
       /\ ~file.exists

\* What the handler did: the events of the log after its start.
HandlerEvents ==
    LET starts == {i \in 1..Len(log) : log[i].ev = "handler" /\ log[i].kind = "start"}
    IN  IF starts = {} THEN << >>
        ELSE SubSeq(log, (CHOOSE i \in starts : TRUE) + 1, Len(log))

\* C26: a handler that needs a file rejects a missing or unsuitable one
\* before it does anything else: it returns an error envelope, and has
\* called no model, run no subprocess, made no HTTP request and created no
\* temporary file or directory.
C26_RejectsBeforeAnythingElse ==
    (pc = "done" /\ hpc # "entry" /\ UnsuitableFile) =>
        /\ result.status = "error"
        /\ hpc = "returned"
        /\ \A i \in 1..Len(HandlerEvents) : HandlerEvents[i].ev \notin {"call", "resource"}
        /\ temps = {}

\* The file-replacement handler was given a file that is no ZIP by its
\* name, and has returned.
C26_Witness ==
    /\ pc = "done"
    /\ handler = "_process_file_replacement_sha256"
    /\ file.path = "/tmp/README.md"
    /\ result = [status |-> "error", message |-> "Invalid or missing ZIP file"]

=============================================================================
